---- MODULE Spec2Model ----
(***************************************************************************)
(* Ark podcast generator: the pipeline orchestration (PodcastWorkflow.run, *)
(* resume_cli, the four stage generators and the Persistence Store) and    *)
(* the timeline planner (_calculate_image_durations).                      *)
(*                                                                         *)
(* Times are integers in tenths of a second.  Planned durations are kept   *)
(* in finer ticks (Scale ticks per tenth) so that the uniform fallback     *)
(* (audio_duration + 2.0) / num_images is exact.                           *)
(***************************************************************************)
EXTENDS Integers, Sequences, FiniteSets, TLC

VARIABLES
    db,             \* the Persistence Store: the generations row and the four request tables
    files,          \* which artifact files of gen_<id>/ exist on disk
    env,            \* environment of the processes: API keys present, video mode
    op,             \* the operation in progress or last run: "none", "run", "resume"
    pc,             \* position inside the operation
    loc,            \* the operation's local variables
    calls,          \* upstream services called by the current operation
    ran,            \* stages whose generate was invoked by the current operation
    skipped,        \* stages the current resume skipped
    lastRaise,      \* the stage call that raised in the current operation, if any
    statusLog,      \* the status at the start of the current operation, then each change of it
    snapshot,       \* db and files as they were when the current operation started
    nops,           \* number of operations started
    timeline,       \* the timeline planner's inputs and its planned durations
    render,         \* one render: its inputs, the command built and what was done with it
    imaging,        \* one call of the image stage: its input, and the trace of what it did
    pair,           \* two Generations on one store: the shared tables and the two threads
    calc,           \* one call of a pure function of the program: its arguments and its result
    tui             \* the TUI app: is_generating, the modal, and its generation workers

vars == <<db, files, env, op, pc, loc, calls, ran, skipped, lastRaise, statusLog,
          snapshot, nops, timeline, render, imaging, pair, calc, tui>>

orchVars == <<db, files, env, op, pc, loc, calls, ran, skipped, lastRaise, statusLog,
              snapshot, nops>>

(***************************************************************************)
(* Bounds of the model.                                                    *)
(***************************************************************************)
MaxImages == 5      \* num_images ranges over 0..MaxImages
MaxSegs == 3        \* at most MaxSegs voice segments
MaxOps == 2         \* operations (one fresh run, then resumes) per behaviour
MaxWorkers == 3     \* generation workers the TUI starts per behaviour
MaxScenes == 1      \* scenes returned by scene extraction, image_count
MaxStills == 3      \* images given to one render
MaxLines == 3       \* dialogue lines and voice segments given to the subtitle writer
MaxShots == 2       \* scenes of one call of ImageGenerator.generate whose trace is kept
MaxTime == 3        \* times range over GridStep * (0..MaxTime) tenths of a second
GridStep == 3       \* spacing of the time grid, in tenths of a second

(***************************************************************************)
(* Program constants, in tenths of a second.                               *)
(***************************************************************************)
FADE_DURATION == 3000       \* fade_duration = 0.3, in units of 0.1 ms
MAX_RETRIES == 3            \* ImageGenerator.MAX_RETRIES
COVER_SECOND == 10          \* a cover shown for 1.0 s
TRANSITION_DURATION == 5    \* transition_duration = 0.5
MIN_IMAGE_DURATION == 5     \* max(0.5, duration)
TAIL_PADDING == 20          \* durations[-1] += 2.0 ; (audio_duration + 2.0)

Max(a, b) == IF a >= b THEN a ELSE b

RECURSIVE Gcd(_, _)
Gcd(a, b) == IF b = 0 THEN a ELSE Gcd(b, a % b)

RECURSIVE LcmUpTo(_)
LcmUpTo(n) == IF n <= 1 THEN 1 ELSE LET l == LcmUpTo(n - 1) IN (l * n) \div Gcd(l, n)

\* ticks per tenth of a second: every (audio + 2.0) / n, n <= MaxImages, is a whole
\* number of ticks
Scale == LcmUpTo(MaxImages)

RECURSIVE SumSeq(_)
SumSeq(s) == IF s = <<>> THEN 0 ELSE Head(s) + SumSeq(Tail(s))

(***************************************************************************)
(* Persistence Store (database/db.py).  One Generation is modelled; NULL   *)
(* and the empty string are both written "".                               *)
(***************************************************************************)
DIALOGUE_JSON == "dialogue.json"    \* gen_<id>/dialogue_<id>.json
AUDIO_FILE == "audio.mp3"           \* gen_<id>/audio_<id>.mp3
VIDEO_FILE == "podcast.mp4"         \* gen_<id>/podcast_<id>.<ext>

\* create_generation: the generations row of a newly created Generation
create_generation ==
    [status |-> "pending", error_message |-> "", dialogue_json_path |-> "",
     audio_path |-> "", video_path |-> ""]

EmptyStore ==
    [generation |-> create_generation, dialogue_requests |-> <<>>,
     audio_requests |-> <<>>, image_requests |-> <<>>, video_outputs |-> <<>>]

\* update_generation_status(gen_id, status, error_message=None, **kwargs): always sets
\* status; sets error_message only when it is truthy; sets the path named by the
\* keyword argument (key = "" when the call passes none)
update_generation_status(d, status, error_message, key, value) ==
    [d EXCEPT !.generation =
        [@ EXCEPT !.status = status,
                  !.error_message = IF error_message # "" THEN error_message ELSE @,
                  !.dialogue_json_path = IF key = "dialogue_json_path" THEN value ELSE @,
                  !.audio_path = IF key = "audio_path" THEN value ELSE @,
                  !.video_path = IF key = "video_path" THEN value ELSE @]]

\* create_dialogue_request: INSERT with success defaulting to 0; the new row's id is
\* its position
create_dialogue_request(d) ==
    [d EXCEPT !.dialogue_requests =
        Append(@, [success |-> FALSE, dialogue |-> "none", error_message |-> ""])]

update_dialogue_request(d, req_id, dialogue, success, error_message) ==
    [d EXCEPT !.dialogue_requests[req_id] =
        [success |-> success, dialogue |-> dialogue, error_message |-> error_message]]

create_audio_request(d) ==
    [d EXCEPT !.audio_requests =
        Append(@, [success |-> FALSE, audio_path |-> "", error_message |-> ""])]

update_audio_request(d, req_id, audio_path, success, error_message) ==
    [d EXCEPT !.audio_requests[req_id] =
        [success |-> success, audio_path |-> audio_path, error_message |-> error_message]]

create_image_request(d, image_index) ==
    [d EXCEPT !.image_requests =
        Append(@, [image_index |-> image_index, success |-> FALSE, image_path |-> "",
                   error_message |-> ""])]

\* get_image_requests: SELECT ... ORDER BY image_index (rows of equal index in insertion
\* order)
RECURSIVE RowsFromIndex(_, _)
RowsFromIndex(rows, i) ==
    IF i >= MaxScenes THEN <<>>
    ELSE SelectSeq(rows, LAMBDA r : r.image_index = i) \o RowsFromIndex(rows, i + 1)

get_image_requests(d) == RowsFromIndex(d.image_requests, 0)

\* create_video_output: INSERT of a complete row
create_video_output(d, video_path, success, error_message) ==
    [d EXCEPT !.video_outputs =
        Append(@, [success |-> success, video_path |-> video_path,
                   error_message |-> error_message])]

\* Database methods that resume_cli, DialogueGenerator and ImageGenerator call but
\* db.py does not define.  get_*_request / get_video_output each return one row for
\* the Generation, or None: the most recent row ("none" when the table holds none).
NoRow == [success |-> FALSE, dialogue |-> "none", audio_path |-> "", video_path |-> "",
          error_message |-> "", present |-> FALSE]

LatestRow(rows) ==
    IF rows = <<>> THEN NoRow
    ELSE LET r == rows[Len(rows)]
         IN  [success |-> r.success,
              dialogue |-> IF "dialogue" \in DOMAIN r THEN r.dialogue ELSE "none",
              audio_path |-> IF "audio_path" \in DOMAIN r THEN r.audio_path ELSE "",
              video_path |-> IF "video_path" \in DOMAIN r THEN r.video_path ELSE "",
              error_message |-> r.error_message,
              present |-> TRUE]

get_dialogue_request(d) == LatestRow(d.dialogue_requests)
get_audio_request(d) == LatestRow(d.audio_requests)
get_video_output(d) == LatestRow(d.video_outputs)

\* update_generation_timing writes timing columns only; none of them is modelled
update_generation_timing(d) == d

(***************************************************************************)
(* Stage generators.  Each generate is a function of the store, the files  *)
(* on disk and what the upstream service answers; it yields the new store  *)
(* and files, whether and where it raised ("" none, "pre_try" before the   *)
(* stage's try block, "try" inside it, re-raised by the except clause),    *)
(* the upstream services it called and its return value.                   *)
(***************************************************************************)
\* A Python call binds only when every keyword it passes is a parameter of the callee;
\* otherwise it raises TypeError before the callee's body runs.
Binds(parameters, keywords) == keywords \subseteq parameters

NoFiles == [dialogue |-> FALSE, audio |-> FALSE, images |-> {}, cover |-> FALSE, video |-> FALSE]

\* ---- DialogueGenerator.generate ----
\* what happens inside generate: _build_prompt raises (a template placeholder or a
\* speaker key is missing), the LLM call or the JSON extraction raises, a dialogue line
\* lacks speaker or text, or a dialogue is returned whose speakers all have voices
\* ("good") or not ("unknown_speaker")
DialogueAnswers == {"prompt_error", "llm_error", "invalid_line", "good", "unknown_speaker"}

\* a success path that advances the status without storing dialogue_json_path
DialogueGenerator_succeed_without_path(d, req_id, dialogue) ==
    update_generation_status(
        update_dialogue_request(d, req_id, dialogue, TRUE, ""),
        "dialogue_complete", "", "", "")

DialogueGenerator_succeed(d, req_id, dialogue) ==
    update_generation_status(
        update_dialogue_request(d, req_id, dialogue, TRUE, ""),
        "dialogue_complete", "", "dialogue_json_path", DIALOGUE_JSON)

DialogueGenerator_fail(d, req_id) ==
    update_generation_status(
        update_dialogue_request(d, req_id, "none", FALSE, "error"),
        "failed", "Dialogue generation failed", "", "")

DialogueGenerator_generate(d, f, answer) ==
    IF answer = "prompt_error"
    THEN \* get_topic_summary_history and _build_prompt run before the try block
         [db |-> d, files |-> f, raised |-> "pre_try", calls |-> {}, value |-> "none"]
    ELSE LET d1 == create_dialogue_request(d)
             req_id == Len(d1.dialogue_requests)
         IN  IF answer \in {"good", "unknown_speaker"}
             THEN [db |-> DialogueGenerator_succeed(d1, req_id, answer),
                   files |-> [f EXCEPT !.dialogue = TRUE],
                   raised |-> "", calls |-> {"llm"}, value |-> answer]
             ELSE [db |-> DialogueGenerator_fail(d1, req_id),
                   files |-> f, raised |-> "try", calls |-> {"llm"}, value |-> "none"]

\* ---- AudioGenerator.generate ----
\* a success path that marks the Generation completed instead of audio_complete
AudioGenerator_succeed_completed(d, req_id) ==
    update_generation_status(
        update_audio_request(d, req_id, AUDIO_FILE, TRUE, ""),
        "completed", "", "audio_path", AUDIO_FILE)

TtsAnswers == {"ok", "error"}

AudioGenerator_succeed(d, req_id) ==
    update_generation_status(
        update_audio_request(d, req_id, AUDIO_FILE, TRUE, ""),
        "audio_complete", "", "audio_path", AUDIO_FILE)

\* an except clause that marks the AudioRequest failed but leaves the Generation's status
AudioGenerator_fail_row_only(d, req_id) ==
    update_audio_request(d, req_id, "", FALSE, "error")

AudioGenerator_fail(d, req_id) ==
    update_generation_status(
        update_audio_request(d, req_id, "", FALSE, "error"),
        "failed", "Audio generation failed", "", "")

AudioGenerator_generate(d, f, dialogue, answer) ==
    LET d1 == create_audio_request(d)
        req_id == Len(d1.audio_requests)
    IN  IF dialogue = "unknown_speaker"
        THEN \* voice_map.get(speaker) is None: ValueError before the TTS request
             [db |-> AudioGenerator_fail(d1, req_id), files |-> f, raised |-> "try",
              calls |-> {}, value |-> "none"]
        ELSE IF answer = "ok"
        THEN [db |-> AudioGenerator_succeed(d1, req_id),
              files |-> [f EXCEPT !.audio = TRUE],
              raised |-> "", calls |-> {"tts"}, value |-> AUDIO_FILE]
        ELSE [db |-> AudioGenerator_fail(d1, req_id), files |-> f, raised |-> "try",
              calls |-> {"tts"}, value |-> "none"]

\* ---- ImageGenerator ----
\* an update_image_request that also takes the timing keywords its callers pass
update_image_request_parameters_with_timing ==
    {"req_id", "image_path", "success", "error_message", "duration_seconds", "retry_count"}

update_image_request_parameters == {"req_id", "image_path", "success", "error_message"}

update_image_request(d, req_id, image_path, success, error_message) ==
    IF req_id \in DOMAIN d.image_requests
    THEN [d EXCEPT !.image_requests[req_id] =
             [@ EXCEPT !.image_path = image_path, !.success = success,
                       !.error_message = error_message]]
    ELSE d      \* UPDATE ... WHERE id = ? matches no row

\* _generate_image_with_retry.  data: some attempt gets image data from the service.
\* With data the file is written and update_image_request(..., success=True,
\* duration_seconds=, retry_count=) is called inside the try: if that call does not
\* bind, its TypeError is swallowed by the except clause as one more failed attempt.
\* After MAX_RETRIES attempts update_image_request(..., success=False, error_message=,
\* retry_count=) is called outside any try.
ImageGenerator_generate_image_with_retry(d, req_id, image_path, data) ==
    IF data /\ Binds(update_image_request_parameters,
                     {"req_id", "image_path", "success", "duration_seconds", "retry_count"})
    THEN [db |-> update_image_request(d, req_id, image_path, TRUE, ""),
          raised |-> FALSE, success |-> TRUE, written |-> TRUE]
    ELSE IF Binds(update_image_request_parameters,
                  {"req_id", "image_path", "success", "error_message", "retry_count"})
    THEN [db |-> update_image_request(d, req_id, "", FALSE, "error"),
          raised |-> FALSE, success |-> FALSE, written |-> data]
    ELSE [db |-> d, raised |-> TRUE, success |-> FALSE, written |-> data]

ImageFile(i) == ToString(i)     \* gen_<id>/image_<id>_<i>.png, named by its index

\* the for loop of ImageGenerator.generate over scenes[:image_count], from scene i on
RECURSIVE ImageGenerator_each_scene(_, _, _, _, _)
ImageGenerator_each_scene(d, f, scenes, i, image_paths) ==
    IF i > Len(scenes)
    THEN [db |-> d, files |-> f, raised |-> FALSE, image_paths |-> image_paths]
    ELSE IF ~scenes[i].prompt
    THEN ImageGenerator_each_scene(d, f, scenes, i + 1, image_paths)
    ELSE LET d1 == create_image_request(d, i - 1)
             r == ImageGenerator_generate_image_with_retry(
                      d1, Len(d1.image_requests), ImageFile(i - 1), scenes[i].data)
             f1 == IF r.written THEN [f EXCEPT !.images = @ \cup {ImageFile(i - 1)}] ELSE f
         IN  IF r.raised
             THEN [db |-> r.db, files |-> f1, raised |-> TRUE, image_paths |-> image_paths]
             ELSE ImageGenerator_each_scene(
                      r.db, f1, scenes, i + 1,
                      IF r.success THEN Append(image_paths, ImageFile(i - 1))
                                   ELSE image_paths)

Scene == [prompt : BOOLEAN, data : BOOLEAN]
SceneLists == UNION {[1..k -> Scene] : k \in 0..MaxScenes}

\* what _extract_scenes does: it raises, or it returns a list of scenes
SceneAnswers ==
    {[extracted |-> FALSE, scenes |-> <<>>]} \cup
    {[extracted |-> TRUE, scenes |-> l] : l \in SceneLists}

ImageGenerator_generate_parameters == {"generation_id", "dialogue", "summary", "output_dir"}

ImageGenerator_fail(d) ==
    update_generation_status(d, "failed", "Image generation failed", "", "")

ImageGenerator_generate(d, f, answer) ==
    IF ~answer.extracted
    THEN [db |-> ImageGenerator_fail(d), files |-> f, raised |-> "try",
          calls |-> {"llm"}, value |-> <<>>]
    ELSE LET scenes == answer.scenes
             r == ImageGenerator_each_scene(d, f, scenes, 1, <<>>)
             called == {"llm"} \cup
                       (IF \E i \in 1..Len(scenes) : scenes[i].prompt THEN {"image"} ELSE {})
         IN  IF r.raised \/ r.image_paths = <<>>
             THEN [db |-> ImageGenerator_fail(IF r.raised THEN r.db
                                              ELSE update_generation_timing(r.db)),
                   files |-> r.files, raised |-> "try", calls |-> called, value |-> <<>>]
             ELSE [db |-> update_generation_status(update_generation_timing(r.db),
                                                   "images_complete", "", "", ""),
                   files |-> r.files, raised |-> "", calls |-> called,
                   value |-> r.image_paths]

generate_cover_parameters == {"generation_id", "title", "summary", "output_dir"}

\* ImageGenerator.generate_cover: every exception is caught and None is returned.
\* prompt_ok: the text model answers; data: the image service returns image data.
CoverAnswers == [prompt_ok : BOOLEAN, data : BOOLEAN]

\* a generate_cover that records its failure on the Generation, as generate does
ImageGenerator_generate_cover_recording_failure(d, f, answer) ==
    IF ~answer.prompt_ok
    THEN [db |-> ImageGenerator_fail(d), files |-> f, raised |-> "", calls |-> {"llm"},
          value |-> "none"]
    ELSE LET r == ImageGenerator_generate_image_with_retry(d, 0, "cover_raw.png", answer.data)
         IN  [db |-> IF ~r.raised /\ r.success THEN r.db ELSE ImageGenerator_fail(r.db),
              files |-> IF r.written THEN [f EXCEPT !.cover = TRUE] ELSE f,
              raised |-> "", calls |-> {"llm", "image"},
              value |-> IF ~r.raised /\ r.success THEN "cover_raw.png" ELSE "none"]

ImageGenerator_generate_cover(d, f, answer) ==
    IF ~answer.prompt_ok
    THEN [db |-> d, files |-> f, raised |-> "", calls |-> {"llm"}, value |-> "none"]
    ELSE LET r == ImageGenerator_generate_image_with_retry(d, 0, "cover_raw.png", answer.data)
         IN  [db |-> r.db,
              files |-> IF r.written THEN [f EXCEPT !.cover = TRUE] ELSE f,
              raised |-> "", calls |-> {"llm", "image"},
              value |-> IF ~r.raised /\ r.success THEN "cover_raw.png" ELSE "none"]

\* ---- VideoGenerator.generate ----
VideoGenerator_generate_parameters ==
    {"generation_id", "image_paths", "audio_path", "audio_duration", "voice_segments",
     "output_dir", "dialogue"}

CompositorAnswers == {"ok", "nonzero_exit"}

\* a success path that sets completed without recording the VideoOutput
VideoGenerator_succeed_status_only(d) ==
    update_generation_status(d, "completed", "", "video_path", VIDEO_FILE)

VideoGenerator_succeed(d) ==
    update_generation_status(
        create_video_output(d, VIDEO_FILE, TRUE, ""),
        "completed", "", "video_path", VIDEO_FILE)

\* an except clause that records the failed VideoOutput but not the Generation status
VideoGenerator_fail_row_only(d) == create_video_output(d, "", FALSE, "FFmpeg failed")

VideoGenerator_fail(d) ==
    update_generation_status(
        create_video_output(d, "", FALSE, "FFmpeg failed"),
        "failed", "FFmpeg failed", "", "")

\* With no image the filter graph reads [v0], which no input provides: the compositor
\* exits non-zero whatever it would answer otherwise.
VideoGenerator_generate(d, f, image_paths, answer) ==
    LET d1 == create_video_output(d, "", FALSE, "")
    IN  IF answer = "ok" /\ image_paths # <<>>
        THEN [db |-> VideoGenerator_succeed(d1), files |-> [f EXCEPT !.video = TRUE],
              raised |-> "", calls |-> {"compositor"}, value |-> VIDEO_FILE]
        ELSE [db |-> VideoGenerator_fail(d1), files |-> f, raised |-> "try",
              calls |-> {"compositor"}, value |-> "none"]

(***************************************************************************)
(* Operations on one Generation: the fresh run (run_cli creating the       *)
(* Generation and calling PodcastWorkflow.run) and resume_cli.  An         *)
(* operation is sequential; it is cut into one step per stage so that the  *)
(* order of its effects can be observed.  Both end at "done" (returned) or *)
(* "raised" (the exception reached run_cli / resume_cli, which exits 1).   *)
(***************************************************************************)
StageOrder == <<"dialogue", "audio", "image", "cover", "video">>

StageRank(s) == CHOOSE k \in 1..Len(StageOrder) : StageOrder[k] = s

NoRaise == [stage |-> "none", at |-> "none"]

NoLocals ==
    [dialogue |-> "none", audio_path |-> "none", image_paths |-> <<>>,
     cover_path |-> "none", video_path |-> "none"]

Last(log) == log[Len(log)]

Log(log, status) == IF Last(log) = status THEN log ELSE Append(log, status)

Idle == pc \in {"idle", "done", "raised"}

\* the effects of a stage call r on the store, the files and the observers
Apply(r) ==
    /\ db' = r.db
    /\ files' = r.files
    /\ calls' = calls \cup r.calls
    /\ statusLog' = Log(statusLog, r.db.generation.status)

\* an orchestrator that swallows the dialogue stage's exception and goes on
Abort_swallowed(stage, at) ==
    /\ pc' = IF op = "run" /\ stage = "dialogue" THEN "run_audio" ELSE "raised"
    /\ lastRaise' = [stage |-> stage, at |-> at]

\* an exception leaves the operation: nothing is written
Abort(stage, at) ==
    /\ pc' = "raised"
    /\ lastRaise' = [stage |-> stage, at |-> at]

StartOperation(kind, first) ==
    /\ nops < MaxOps
    /\ nops' = nops + 1
    /\ op' = kind
    /\ pc' = first
    /\ loc' = NoLocals
    /\ calls' = {}
    /\ ran' = {}
    /\ skipped' = {}
    /\ lastRaise' = NoRaise
    /\ snapshot' = [db |-> db, files |-> files]
    /\ statusLog' = <<db.generation.status>>
    /\ UNCHANGED <<db, files, env, timeline, render, imaging, pair, calc, tui>>

\* run_cli: create_generation has just run; PodcastWorkflow.run starts
StartRun ==
    /\ pc = "idle"
    /\ nops = 0
    /\ db = EmptyStore
    /\ StartOperation("run", "run_dialogue")

\* workflow.py Step 1: DialogueGenerator(config, db), then generate
RunDialogue ==
    /\ pc = "run_dialogue"
    /\ UNCHANGED <<env, op, skipped, snapshot, nops, timeline, render, imaging, pair, calc, tui>>
    /\ ran' = ran \cup {"dialogue"}
    /\ IF ~env.google_key
       THEN Abort("dialogue", "ctor") /\ UNCHANGED <<db, files, calls, statusLog, loc>>
       ELSE \E answer \in DialogueAnswers :
              LET r == DialogueGenerator_generate(db, files, answer)
              IN  /\ Apply(r)
                  /\ IF r.raised # ""
                     THEN Abort("dialogue", r.raised) /\ UNCHANGED loc
                     ELSE /\ pc' = "run_audio"
                          /\ loc' = [loc EXCEPT !.dialogue = r.value]
                          /\ UNCHANGED lastRaise

\* workflow.py Step 2: AudioGenerator(config, db), then generate
RunAudio ==
    /\ pc = "run_audio"
    /\ UNCHANGED <<env, op, skipped, snapshot, nops, timeline, render, imaging, pair, calc, tui>>
    /\ ran' = ran \cup {"audio"}
    /\ IF ~env.eleven_key
       THEN Abort("audio", "ctor") /\ UNCHANGED <<db, files, calls, statusLog, loc>>
       ELSE \E answer \in TtsAnswers :
              LET r == AudioGenerator_generate(db, files, loc.dialogue, answer)
              IN  /\ Apply(r)
                  /\ IF r.raised # ""
                     THEN Abort("audio", r.raised) /\ UNCHANGED loc
                     ELSE /\ pc' = "run_visuals"
                          /\ loc' = [loc EXCEPT !.audio_path = r.value]
                          /\ UNCHANGED lastRaise

\* workflow.py Step 3: skipped for veo_loop; otherwise ImageGenerator(config, db),
\* generate(..., language=language), then generate_cover(..., language=language)
RunVisuals ==
    /\ pc = "run_visuals"
    /\ UNCHANGED <<env, op, skipped, snapshot, nops, timeline, render, imaging, pair, calc, tui>>
    /\ IF env.mode = "veo_loop"
       THEN /\ pc' = "run_video"
            /\ UNCHANGED <<db, files, calls, statusLog, loc, lastRaise, ran>>
       ELSE /\ ran' = ran \cup {"image"}
            /\ IF ~env.google_key
               THEN Abort("image", "ctor") /\ UNCHANGED <<db, files, calls, statusLog, loc>>
               ELSE IF ~Binds(ImageGenerator_generate_parameters,
                              {"generation_id", "dialogue", "summary", "output_dir", "language"})
               THEN Abort("image", "call") /\ UNCHANGED <<db, files, calls, statusLog, loc>>
               ELSE \E scenes \in SceneAnswers, answer \in CoverAnswers :
                      LET r == ImageGenerator_generate(db, files, scenes)
                          c == ImageGenerator_generate_cover(r.db, r.files, answer)
                      IN  IF r.raised # ""
                          THEN Apply(r) /\ Abort("image", r.raised) /\ UNCHANGED loc
                          ELSE IF ~Binds(generate_cover_parameters,
                                         {"generation_id", "title", "summary", "output_dir",
                                          "language"})
                          THEN Apply(r) /\ Abort("cover", "call") /\ UNCHANGED loc
                          ELSE /\ Apply([c EXCEPT !.calls = r.calls \cup c.calls])
                               /\ pc' = "run_video"
                               /\ loc' = [loc EXCEPT !.image_paths = r.value,
                                                     !.cover_path = c.value]
                               /\ UNCHANGED lastRaise

\* workflow.py Step 4: VideoGenerator(config, db), then
\* generate(..., dialogue=, title=, cover_image_path=)
RunVideo ==
    /\ pc = "run_video"
    /\ UNCHANGED <<env, op, skipped, snapshot, nops, timeline, render, imaging, pair, calc, tui>>
    /\ ran' = ran \cup {"video"}
    /\ IF ~Binds(VideoGenerator_generate_parameters,
                 {"generation_id", "image_paths", "audio_path", "audio_duration",
                  "voice_segments", "output_dir", "dialogue", "title", "cover_image_path"})
       THEN Abort("video", "call") /\ UNCHANGED <<db, files, calls, statusLog, loc>>
       ELSE \E answer \in CompositorAnswers :
              LET r == VideoGenerator_generate(db, files, loc.image_paths, answer)
              IN  /\ Apply(r)
                  /\ IF r.raised # ""
                     THEN Abort("video", r.raised) /\ UNCHANGED loc
                     ELSE /\ pc' = "done"
                          /\ loc' = [loc EXCEPT !.video_path = r.value]
                          /\ UNCHANGED lastRaise


\* resume_cli starts: get_generation, mkdir, empty locals
StartResume ==
    /\ Idle
    /\ StartOperation("resume", "resume_dialogue")

\* main.py Check Step 1: the latest DialogueRequest succeeded and the Generation has
\* a dialogue_json_path (the file itself is not looked at)
ResumeDialogue_reuses(d, f) ==
    LET dialogue_req == get_dialogue_request(d)
    IN  dialogue_req.present /\ dialogue_req.success /\ d.generation.dialogue_json_path # ""

ResumeDialogue ==
    /\ pc = "resume_dialogue"
    /\ UNCHANGED <<env, op, snapshot, nops, timeline, render, imaging, pair, calc, tui>>
    /\ IF ResumeDialogue_reuses(db, files)
       THEN /\ skipped' = skipped \cup {"dialogue"}
            /\ loc' = [loc EXCEPT !.dialogue = get_dialogue_request(db).dialogue]
            /\ pc' = "resume_audio"
            /\ UNCHANGED <<db, files, calls, statusLog, lastRaise, ran>>
       ELSE /\ ran' = ran \cup {"dialogue"}
            /\ UNCHANGED skipped
            /\ IF ~env.google_key
               THEN Abort("dialogue", "ctor") /\ UNCHANGED <<db, files, calls, statusLog, loc>>
               ELSE \E answer \in DialogueAnswers :
                      LET r == DialogueGenerator_generate(db, files, answer)
                      IN  /\ Apply(r)
                          /\ IF r.raised # ""
                             THEN Abort("dialogue", r.raised) /\ UNCHANGED loc
                             ELSE /\ pc' = "resume_audio"
                                  /\ loc' = [loc EXCEPT !.dialogue = r.value]
                                  /\ UNCHANGED lastRaise

\* main.py Check Step 2: the latest AudioRequest succeeded and its file exists
ResumeAudio_reuses(d, f) ==
    LET audio_req == get_audio_request(d)
        audio_exists == audio_req.present /\ audio_req.audio_path # "" /\ f.audio
    IN  audio_req.present /\ audio_req.success /\ audio_exists

ResumeAudio ==
    /\ pc = "resume_audio"
    /\ UNCHANGED <<env, op, snapshot, nops, timeline, render, imaging, pair, calc, tui>>
    /\ IF ResumeAudio_reuses(db, files)
       THEN /\ skipped' = skipped \cup {"audio"}
            /\ loc' = [loc EXCEPT !.audio_path = get_audio_request(db).audio_path]
            /\ pc' = "resume_images"
            /\ UNCHANGED <<db, files, calls, statusLog, lastRaise, ran>>
       ELSE /\ ran' = ran \cup {"audio"}
            /\ UNCHANGED skipped
            /\ IF ~env.eleven_key
               THEN Abort("audio", "ctor") /\ UNCHANGED <<db, files, calls, statusLog, loc>>
               ELSE \E answer \in TtsAnswers :
                      LET r == AudioGenerator_generate(db, files, loc.dialogue, answer)
                      IN  /\ Apply(r)
                          /\ IF r.raised # ""
                             THEN Abort("audio", r.raised) /\ UNCHANGED loc
                             ELSE /\ pc' = "resume_images"
                                  /\ loc' = [loc EXCEPT !.audio_path = r.value]
                                  /\ UNCHANGED lastRaise

\* main.py Check Step 3: the ImageRequests that succeeded and whose file exists
successful_images(d, f) ==
    SelectSeq(get_image_requests(d), LAMBDA img : img.success /\ img.image_path \in f.images)

ResumeImages ==
    /\ pc = "resume_images"
    /\ UNCHANGED <<env, op, snapshot, nops, timeline, render, imaging, pair, calc, tui>>
    /\ IF successful_images(db, files) # <<>>
       THEN /\ skipped' = skipped \cup {"image"}
            /\ loc' = [loc EXCEPT !.image_paths =
                         [k \in 1..Len(successful_images(db, files)) |->
                             successful_images(db, files)[k].image_path]]
            /\ pc' = "resume_cover"
            /\ UNCHANGED <<db, files, calls, statusLog, lastRaise, ran>>
       ELSE /\ ran' = ran \cup {"image"}
            /\ UNCHANGED skipped
            /\ IF ~env.google_key
               THEN Abort("image", "ctor") /\ UNCHANGED <<db, files, calls, statusLog, loc>>
               ELSE IF ~Binds(ImageGenerator_generate_parameters,
                              {"generation_id", "dialogue", "summary", "output_dir"})
               THEN Abort("image", "call") /\ UNCHANGED <<db, files, calls, statusLog, loc>>
               ELSE \E answer \in SceneAnswers :
                      LET r == ImageGenerator_generate(db, files, answer)
                      IN  /\ Apply(r)
                          /\ IF r.raised # ""
                             THEN Abort("image", r.raised) /\ UNCHANGED loc
                             ELSE /\ pc' = "resume_cover"
                                  /\ loc' = [loc EXCEPT !.image_paths = r.value]
                                  /\ UNCHANGED lastRaise

\* main.py "Check for cover image": ImageGenerator(config, db) is constructed in any
\* case; an existing cover_<id>_raw.png is used, otherwise generate_cover is called
ResumeCover ==
    /\ pc = "resume_cover"
    /\ UNCHANGED <<env, op, snapshot, nops, timeline, render, imaging, pair, calc, tui>>
    /\ IF ~env.google_key
       THEN /\ Abort("cover", "ctor")
            /\ UNCHANGED <<db, files, calls, statusLog, loc, ran, skipped>>
       ELSE IF files.cover
       THEN /\ skipped' = skipped \cup {"cover"}
            /\ loc' = [loc EXCEPT !.cover_path = "cover_raw.png"]
            /\ pc' = "resume_video"
            /\ UNCHANGED <<db, files, calls, statusLog, lastRaise, ran>>
       ELSE /\ ran' = ran \cup {"cover"}
            /\ UNCHANGED skipped
            /\ IF ~Binds(generate_cover_parameters,
                         {"generation_id", "title", "summary", "output_dir"})
               THEN Abort("cover", "call") /\ UNCHANGED <<db, files, calls, statusLog, loc>>
               ELSE \E answer \in CoverAnswers :
                      LET c == ImageGenerator_generate_cover(db, files, answer)
                      IN  /\ Apply(c)
                          /\ pc' = "resume_video"
                          /\ loc' = [loc EXCEPT !.cover_path = c.value]
                          /\ UNCHANGED lastRaise

\* a video check that trusts the file on disk over the VideoOutput row
ResumeVideo_reuses_file(d, f) == f.video

\* main.py Step 4: the latest VideoOutput succeeded and its file exists
ResumeVideo_reuses(d, f) ==
    LET video_out == get_video_output(d)
        video_exists == video_out.present /\ video_out.video_path # "" /\ f.video
    IN  video_exists /\ video_out.success

ResumeVideo ==
    /\ pc = "resume_video"
    /\ UNCHANGED <<env, op, snapshot, nops, timeline, render, imaging, pair, calc, tui>>
    /\ IF ResumeVideo_reuses(db, files)
       THEN /\ skipped' = skipped \cup {"video"}
            /\ loc' = [loc EXCEPT !.video_path = get_video_output(db).video_path]
            /\ pc' = "done"
            /\ UNCHANGED <<db, files, calls, statusLog, lastRaise, ran>>
       ELSE /\ ran' = ran \cup {"video"}
            /\ UNCHANGED skipped
            /\ IF ~Binds(VideoGenerator_generate_parameters,
                         {"generation_id", "image_paths", "audio_path", "audio_duration",
                          "voice_segments", "output_dir", "dialogue", "title",
                          "cover_image_path"})
               THEN Abort("video", "call") /\ UNCHANGED <<db, files, calls, statusLog, loc>>
               ELSE \E answer \in CompositorAnswers :
                      LET r == VideoGenerator_generate(db, files, loc.image_paths, answer)
                      IN  /\ Apply(r)
                          /\ IF r.raised # ""
                             THEN Abort("video", r.raised) /\ UNCHANGED loc
                             ELSE /\ pc' = "done"
                                  /\ loc' = [loc EXCEPT !.video_path = r.value]
                                  /\ UNCHANGED lastRaise

\* the planner is not in use
NoTimeline ==
    [phase |-> "none", audio_duration |-> 0, voice_segments |-> <<>>, num_images |-> 0,
     generator |-> <<>>, renderer |-> <<>>]

\* the command: the visual inputs in order (shown: the time box of the visual, t: the
\* -t of its input), the stream labels the concat part reads and those some filter
\* chain defines, and whether the subtitles filter is present
NoCommand == [visuals |-> <<>>, reads |-> {}, defines |-> {}, subtitles |-> FALSE]

\* no filter graph was built
NoGraph == [inputs |-> <<>>, filters |-> <<>>, maps |-> <<>>]

\* no render is in progress
NoRender ==
    [phase |-> "none", impl |-> "none", n |-> 0, durations |-> <<>>, segs_len |-> 0,
     dialogue_given |-> FALSE, dialogue_len |-> 0, cover |-> FALSE, cover_duration |-> 0,
     background |-> FALSE, intro |-> FALSE, transitions |-> FALSE,
     subtitle_path |-> FALSE, subtitle_exists |-> FALSE,
     music |-> FALSE, cmd |-> NoCommand, graph |-> NoGraph, steps |-> <<>>,
     subtitle_written |-> FALSE, raised |-> ""]

\* no function has been called
NoCalc == [phase |-> "none", fn |-> "none", args |-> <<>>, result |-> <<>>]

\* no pair of Generations is running
NoPair == [store |-> <<>>, thread |-> <<>>]

\* PodcastGeneratorApp.__init__: is_generating is False; no modal is on the screen
\* stack, no generation worker exists, no "Generation in progress" warning was shown
PodcastGeneratorApp_init ==
    [is_generating |-> FALSE, modal |-> FALSE, worker |-> <<>>, warned |-> FALSE]

\* no call of the image stage is in progress
NoImaging == [phase |-> "none", call |-> "none", responses |-> <<>>, scenes |-> <<>>,
              events |-> <<>>, outcome |-> "none", value |-> <<>>]

Modes == {"static", "veo_loop"}     \* config video.mode

\* no operation has run yet on the store d and the files f
Quiescent(d, f) ==
    /\ db = d
    /\ files = f
    /\ op = "none"
    /\ pc = "idle"
    /\ loc = NoLocals
    /\ calls = {}
    /\ ran = {}
    /\ skipped = {}
    /\ lastRaise = NoRaise
    /\ statusLog = <<d.generation.status>>
    /\ snapshot = [db |-> d, files |-> f]
    /\ nops = 0

(***************************************************************************)
(* What resume_cli may find.  It takes any Generation id: the store and    *)
(* the output directory are its inputs, written by earlier runs of this or *)
(* an earlier build and edited by hand since.  Rows are drawn as the       *)
(* generators write them: no row, a failed row or a successful row per     *)
(* stage; VideoGenerator.generate writes its placeholder row before the    *)
(* outcome row.                                                            *)
(***************************************************************************)
DialogueRow(success) ==
    [success |-> success, dialogue |-> IF success THEN "good" ELSE "none",
     error_message |-> IF success THEN "" ELSE "error"]

AudioRow(success) ==
    [success |-> success, audio_path |-> IF success THEN AUDIO_FILE ELSE "",
     error_message |-> IF success THEN "" ELSE "error"]

ImageRow(i, success) ==
    [image_index |-> i - 1, success |-> success,
     image_path |-> IF success THEN ImageFile(i - 1) ELSE "",
     error_message |-> IF success THEN "" ELSE "error"]

VideoRows(success) ==
    <<[video_path |-> "", success |-> FALSE, error_message |-> ""],
      [video_path |-> IF success THEN VIDEO_FILE ELSE "", success |-> success,
       error_message |-> IF success THEN "" ELSE "FFmpeg failed"]>>

Histories == {<<>>, <<FALSE>>, <<TRUE>>}

ImageHistories == UNION {[1..k -> BOOLEAN] : k \in 0..MaxScenes}

VideoHistory(h) == IF h = <<>> THEN <<>> ELSE VideoRows(h[1])

Succeeded(h) == \E k \in 1..Len(h) : h[k]

\* the status a Generation with these rows was left in: failed, or the mark of the
\* furthest stage that succeeded
FurthestStatus(dh, ah, ih, vh) ==
    IF Succeeded(vh) THEN "completed"
    ELSE IF Succeeded(ih) THEN "images_complete"
    ELSE IF Succeeded(ah) THEN "audio_complete"
    ELSE IF Succeeded(dh) THEN "dialogue_complete"
    ELSE "pending"

PersistedStore(dh, ah, ih, vh, failed) ==
    [generation |->
        [status |-> IF failed THEN "failed" ELSE FurthestStatus(dh, ah, ih, vh),
         error_message |-> IF failed THEN "error" ELSE "",
         dialogue_json_path |-> IF Succeeded(dh) THEN DIALOGUE_JSON ELSE "",
         audio_path |-> IF Succeeded(ah) THEN AUDIO_FILE ELSE "",
         video_path |-> IF Succeeded(vh) THEN VIDEO_FILE ELSE ""],
     dialogue_requests |-> [k \in 1..Len(dh) |-> DialogueRow(dh[k])],
     audio_requests |-> [k \in 1..Len(ah) |-> AudioRow(ah[k])],
     image_requests |-> [k \in 1..Len(ih) |-> ImageRow(k, ih[k])],
     video_outputs |-> VideoHistory(vh)]

PersistedFiles(ih) ==
    [dialogue : BOOLEAN, audio : BOOLEAN,
     images : SUBSET {ImageFile(k - 1) : k \in 1..Len(ih)},
     cover : BOOLEAN, video : BOOLEAN]

\* a stage has rows only if the stage before it has succeeded once: no audio row
\* without a successful dialogue, no image or video row without an audio row
Attempted(dh, ah, ih, vh) ==
    /\ (ah # <<>> => dh = <<TRUE>>)
    /\ (ih # <<>> => ah # <<>>)
    /\ (vh # <<>> => ah # <<>>)

Init ==
    /\ \E dh \in Histories, ah \in Histories, ih \in ImageHistories, vh \in Histories,
          failed \in BOOLEAN :
          \E f \in PersistedFiles(ih) :
             /\ Attempted(dh, ah, ih, vh)
             /\ (failed => (dh \o ah \o ih \o vh) # <<>>)
             /\ ((dh \o ah \o ih \o vh) = <<>> => f = NoFiles)
             /\ Quiescent(PersistedStore(dh, ah, ih, vh, failed), f)
    /\ env \in [google_key : BOOLEAN, eleven_key : BOOLEAN,
                mode : IF db = EmptyStore THEN Modes ELSE {"static"}]
    /\ timeline = NoTimeline
    /\ render = NoRender
    /\ imaging = NoImaging
    /\ pair = NoPair
    /\ tui = PodcastGeneratorApp_init
    /\ calc = NoCalc

Next ==
    \/ StartRun
    \/ RunDialogue
    \/ RunAudio
    \/ RunVisuals
    \/ RunVideo
    \/ StartResume
    \/ ResumeDialogue
    \/ ResumeAudio
    \/ ResumeImages
    \/ ResumeCover
    \/ ResumeVideo

Spec == Init /\ [][Next]_vars

(***************************************************************************)
(* Properties of the orchestration.                                        *)
(***************************************************************************)
Lifecycle ==
    <<"pending", "dialogue_complete", "audio_complete", "images_complete", "completed">>

Terminal == {"completed", "failed"}

FourStages == {"dialogue", "audio", "image", "video"}

\* the stage's latest StageRequest in the store d is marked success / failure; for
\* the image stage, some ImageRequest is marked success / every one is marked failure
MarkedSuccess(d, s) ==
    IF s = "dialogue" THEN get_dialogue_request(d).present /\ get_dialogue_request(d).success
    ELSE IF s = "audio" THEN get_audio_request(d).present /\ get_audio_request(d).success
    ELSE IF s = "video" THEN get_video_output(d).present /\ get_video_output(d).success
    ELSE \E k \in DOMAIN d.image_requests : d.image_requests[k].success

MarkedFailure(d, s) ==
    IF s = "dialogue" THEN get_dialogue_request(d).present /\ ~get_dialogue_request(d).success
    ELSE IF s = "audio" THEN get_audio_request(d).present /\ ~get_audio_request(d).success
    ELSE IF s = "video" THEN get_video_output(d).present /\ ~get_video_output(d).success
    ELSE d.image_requests # <<>> /\ \A k \in DOMAIN d.image_requests : ~d.image_requests[k].success

\* the stage's artifact is on disk; for the image stage, the file of some / of every
\* successful ImageRequest
SomeFile(f, s) == IF s = "image" THEN f.images # {} ELSE f[s]

ConfirmedImages(d, f) ==
    /\ d.image_requests # <<>>
    /\ \A k \in DOMAIN d.image_requests :
          d.image_requests[k].success /\ d.image_requests[k].image_path \in f.images

AllConfirmed(d, f) ==
    /\ \A s \in {"dialogue", "audio", "video"} : MarkedSuccess(d, s) /\ f[s]
    /\ ConfirmedImages(d, f)

\* C1: in a fresh run the distinct status values written form a prefix of the
\* lifecycle pending, dialogue_complete, audio_complete, images_complete, completed,
\* possibly cut short and ended by failed; none is skipped, none revisited, in
\* either video mode.
C1_FreshRunFollowsLifecycle ==
    op = "run" =>
        \E k \in 1..Len(Lifecycle) :
            \/ statusLog = SubSeq(Lifecycle, 1, k)
            \/ statusLog = Append(SubSeq(Lifecycle, 1, k), "failed")

C1_Witness ==
    /\ op = "run"
    /\ pc = "raised"
    /\ statusLog = <<"pending", "dialogue_complete", "failed">>

C3_RaiseLeavesFailedStatus ==
    (pc = "raised" /\ lastRaise.at \in {"pre_try", "try"})
        => (db.generation.status = "failed" /\ db.generation.error_message # "")

\* C4: when a fresh run ends with an exception, no later stage was entered after the
\* failing step and the final stored status is failed.
C4_RunExceptionStopsAndFails ==
    (op = "run" /\ pc = "raised")
        => /\ \A s \in ran : StageRank(s) <= StageRank(lastRaise.stage)
           /\ db.generation.status = "failed"

\* C5: a resume of a Generation whose four stages are all confirmed (request marked
\* success, file on disk) calls no upstream service, leaves store and files as they
\* were and ends by yielding the existing video path.
C5_ConfirmedResumeIsIdle ==
    (op = "resume" /\ AllConfirmed(snapshot.db, snapshot.files))
        => /\ calls = {}
           /\ db = snapshot.db
           /\ files = snapshot.files
           /\ pc # "raised"
           /\ (pc = "done" => loc.video_path = VIDEO_FILE)

\* C6: in a resume, once a stage is re-run no later stage is skipped.
C6_RerunCascades ==
    op = "resume" =>
        \A a \in ran \cap FourStages, b \in skipped \cap FourStages :
            StageRank(b) < StageRank(a)

\* C7: a resume does not skip a stage whose request is marked success while its
\* artifact file is missing, whichever of the four stages it is.
C7_MissingFileIsRerun ==
    op = "resume" =>
        \A s \in FourStages :
            (MarkedSuccess(snapshot.db, s) /\ ~SomeFile(snapshot.files, s))
                => s \notin skipped

SegmentIndex(i, S, N) == (i * S) \div N

\* One voice segment: start_time_seconds and end_time_seconds, start <= end.
TimeGrid == {GridStep * k : k \in 0..MaxTime}
VoiceSegment == {seg \in [start : TimeGrid, end : TimeGrid] : seg.start <= seg.end}

\* VoiceSegment lists as the TTS contract gives them: start <= end per segment,
\* starts non-decreasing.
WellFormedSegments(segs) ==
    /\ \A k \in 1..Len(segs) : segs[k].start <= segs[k].end
    /\ \A k \in 1..(Len(segs) - 1) : segs[k].start <= segs[k + 1].start

SegmentLists ==
    {segs \in UNION {[1..k -> VoiceSegment] : k \in 0..MaxSegs} : WellFormedSegments(segs)}

\* start_idx and end_idx of image i (1-based) as the loop computes them, end_idx
\* clamped to the last segment
start_idx(i, S, N) == SegmentIndex(i - 1, S, N)

end_idx(i, S, N) == IF SegmentIndex(i, S, N) >= S THEN S - 1 ELSE SegmentIndex(i, S, N)

\* the planner takes the segment-grouping branch
UsesSegments(voice_segments, num_images) ==
    voice_segments # <<>> /\ Len(voice_segments) >= num_images

\* a planner that leaves the 2.0 s padding out of the uniform fallback
PlanDurations_unpadded(audio_duration, voice_segments, num_images) ==
    IF num_images <= 0 THEN <<>>
    ELSE [i \in 1..num_images |-> (audio_duration * Scale) \div num_images]

\* The body shared, line for line, by VideoGenerator._calculate_image_durations and
\* VideoRenderer.calculate_image_durations; the result is in ticks.
PlanDurations(audio_duration, voice_segments, num_images) ==
    LET S == Len(voice_segments)
        N == num_images
    IN  IF N <= 0 THEN <<>>
        ELSE IF UsesSegments(voice_segments, N) THEN
            [i \in 1..N |->
                LET duration  == voice_segments[end_idx(i, S, N) + 1].end
                                   - voice_segments[start_idx(i, S, N) + 1].start
                IN  Max(MIN_IMAGE_DURATION, duration) * Scale
                      + (IF i = N THEN TAIL_PADDING * Scale ELSE 0)]
        ELSE
            [i \in 1..N |-> ((audio_duration + TAIL_PADDING) * Scale) \div N]

VideoGenerator_calculate_image_durations(audio_duration, voice_segments, num_images) ==
    PlanDurations(audio_duration, voice_segments, num_images)

VideoRenderer_calculate_image_durations(audio_duration, voice_segments, num_images) ==
    PlanDurations(audio_duration, voice_segments, num_images)

\* the two worked examples: six segments for three images, no segment for four
SixSegments ==
    <<[start |-> 0, end |-> 30], [start |-> 30, end |-> 60], [start |-> 60, end |-> 100],
      [start |-> 100, end |-> 130], [start |-> 130, end |-> 170],
      [start |-> 170, end |-> 200]>>

ExampleInputs ==
    {[phase |-> "input", audio_duration |-> 200, voice_segments |-> SixSegments,
      num_images |-> 3, generator |-> <<>>, renderer |-> <<>>],
     [phase |-> "input", audio_duration |-> 180, voice_segments |-> <<>>,
      num_images |-> 4, generator |-> <<>>, renderer |-> <<>>]}

TimelineInit ==
    /\ Quiescent(EmptyStore, NoFiles)
    /\ render = NoRender
    /\ imaging = NoImaging
    /\ pair = NoPair
    /\ tui = PodcastGeneratorApp_init
    /\ calc = NoCalc
    /\ env = [google_key |-> FALSE, eleven_key |-> FALSE, mode |-> "static"]
    /\ timeline \in ExampleInputs \cup
                    [phase : {"input"}, audio_duration : TimeGrid,
                     voice_segments : SegmentLists, num_images : 0..MaxImages,
                     generator : {<<>>}, renderer : {<<>>}]

\* One call of the planner by each of its two implementations.
PlanTimeline ==
    /\ timeline.phase = "input"
    /\ timeline' = [timeline EXCEPT
          !.phase = "planned",
          !.generator = VideoGenerator_calculate_image_durations(
                            timeline.audio_duration, timeline.voice_segments,
                            timeline.num_images),
          !.renderer = VideoRenderer_calculate_image_durations(
                            timeline.audio_duration, timeline.voice_segments,
                            timeline.num_images)]
    /\ UNCHANGED orchVars
    /\ UNCHANGED <<render, imaging, pair, calc, tui>>

TimelineNext == PlanTimeline

SpecTimeline == TimelineInit /\ [][TimelineNext]_vars

(***************************************************************************)
(* One render: VideoGenerator.generate called as its signature allows, and *)
(* VideoRenderer.render_video.  Durations are in ticks.                    *)
(***************************************************************************)
ImageLabels(n) == {ImageFile(i - 1) : i \in 1..n}

\* a generate that writes subtitles whenever a dialogue is given
VideoGenerator_creates_subtitles_given(dialogue_given, dialogue_len, segs_len) ==
    dialogue_given /\ dialogue_len > 0

\* video.py generate: subtitles are created when dialogue and voice_segments are both
\* non-empty and of equal length
VideoGenerator_creates_subtitles(dialogue_given, dialogue_len, segs_len) ==
    dialogue_given /\ dialogue_len > 0 /\ segs_len > 0 /\ dialogue_len = segs_len

\* VideoGenerator._build_ffmpeg_command: one input per image with the transition added
\* to its -t; more than one image: an xfade chain over [v0]..[v<n-1>]; otherwise
\* "[v0]copy[vconcat]" whether or not there is an image
VideoGenerator_build_ffmpeg_command(n, durations, subtitle_path, subtitle_exists) ==
    [visuals |-> [i \in 1..n |->
                     [kind |-> "image", shown |-> durations[i],
                      t |-> durations[i] + TRANSITION_DURATION * Scale]],
     reads |-> IF n > 1 THEN ImageLabels(n) ELSE {ImageFile(0)},
     defines |-> ImageLabels(n),
     subtitles |-> subtitle_path /\ subtitle_exists]

VideoRenderer_visuals_over_background(inp) ==
    (IF inp.background THEN <<[kind |-> "background", shown |-> 0, t |-> 0]>> ELSE <<>>)
      \o (IF inp.cover /\ inp.cover_duration > 0
          THEN <<[kind |-> "cover", shown |-> inp.cover_duration, t |-> inp.cover_duration]>>
          ELSE <<>>)
      \o (IF inp.intro THEN <<[kind |-> "intro", shown |-> 0, t |-> 0]>> ELSE <<>>)
      \o [i \in 1..inp.n |->
             [kind |-> "image", shown |-> inp.durations[i],
              t |-> inp.durations[i]
                      + (IF inp.transitions /\ i < inp.n
                         THEN TRANSITION_DURATION * Scale ELSE 0)]]

\* VideoRenderer.build_ffmpeg_command: a background clip overrides everything;
\* otherwise cover (when cover_path is given and cover_duration > 0), intro clip and
\* the stills; it raises when that gives no visual at all
VideoRenderer_visuals(inp) ==
    IF inp.background
    THEN <<[kind |-> "background", shown |-> 0, t |-> 0]>>
    ELSE (IF inp.cover /\ inp.cover_duration > 0
          THEN <<[kind |-> "cover", shown |-> inp.cover_duration, t |-> inp.cover_duration]>>
          ELSE <<>>)
         \o (IF inp.intro THEN <<[kind |-> "intro", shown |-> 0, t |-> 0]>> ELSE <<>>)
         \o [i \in 1..inp.n |->
                [kind |-> "image", shown |-> inp.durations[i],
                 t |-> inp.durations[i]
                         + (IF inp.transitions /\ i < inp.n
                            THEN TRANSITION_DURATION * Scale ELSE 0)]]

VideoRenderer_build_ffmpeg_command(inp) ==
    LET visuals == VideoRenderer_visuals(inp)
        labels == {visuals[k].kind : k \in 1..Len(visuals)}
    IN  [raised |-> visuals = <<>>,
         cmd |-> [visuals |-> visuals, reads |-> labels, defines |-> labels,
                  subtitles |-> inp.subtitle_path /\ inp.subtitle_exists]]

(***************************************************************************)
(* The filter graph of the command, label by label.  A stream reference is *)
(* either an input pad "[k:v]" / "[k:a]" or a label "[name<i>]".           *)
(***************************************************************************)
InRef(k, medium) == [kind |-> "in", name |-> medium, idx |-> k]

Label(name, i) == [kind |-> "label", name |-> name, idx |-> i]

\* one filter chain of filter_complex: what it reads, the label it defines, the
\* offset= it carries (xfade only) and the input it is meant to read (input pads only)
Filter(name, ins, out, offset, want) ==
    [op |-> name, ins |-> ins, out |-> out, offset |-> offset, want |-> want]

Input(kind, item) == [kind |-> kind, item |-> item]

NoInput == Input("", 0)

xfade_offset_cumulative(durations, k) ==
    SumSeq(SubSeq(durations, 1, k))

\* the running offset of the xfade loop when it emits crossfade k: durations[0] - T,
\* then += durations[i] - T after each crossfade
xfade_offset(durations, k) ==
    SumSeq(SubSeq(durations, 1, k)) - k * TRANSITION_DURATION * Scale

\* the st= of the fade-out VideoGenerator puts on every still but the last
fade_out_start(duration) == duration - TRANSITION_DURATION * Scale

\* ticks in a hundredth of a second
TicksPerCenti == Scale \div 10

\* f"{offset:.2f}": the offset to the nearest hundredth of a second, in hundredths
format_offset(offset) == (offset + TicksPerCenti \div 2) \div TicksPerCenti

\* "[vconcat]fade..[vfaded]", then subtitles or copy to [outv]
VideoTailFilters(subtitles) ==
    <<Filter("fade", <<Label("vconcat", 0)>>, Label("vfaded", 0), 0, NoInput),
      Filter(IF subtitles THEN "subtitles" ELSE "copy",
             <<Label("vfaded", 0)>>, Label("outv", 0), 0, NoInput)>>

AudioFilters_voice_first(audio_idx, music) ==
    <<Filter("voice", <<InRef(0, "a")>>, Label("voice_a", 0), 0, Input("voice", 0))>>
      \o (IF music
          THEN <<Filter("music", <<InRef(audio_idx + 1, "a")>>, Label("music_a", 0), 0,
                        Input("music", 0)),
                 Filter("amix", <<Label("voice_a", 0), Label("music_a", 0)>>,
                        Label("outa", 0), 0, NoInput)>>
          ELSE <<Filter("acopy", <<Label("voice_a", 0)>>, Label("outa", 0), 0, NoInput)>>)

\* the voice filter on the audio input, the music filter and amix when there is
\* music, acopy otherwise
AudioFilters(audio_idx, music) ==
    <<Filter("voice", <<InRef(audio_idx, "a")>>, Label("voice_a", 0), 0,
             Input("voice", 0))>>
      \o (IF music
          THEN <<Filter("music", <<InRef(audio_idx + 1, "a")>>, Label("music_a", 0), 0,
                        Input("music", 0)),
                 Filter("amix", <<Label("voice_a", 0), Label("music_a", 0)>>,
                        Label("outa", 0), 0, NoInput)>>
          ELSE <<Filter("acopy", <<Label("voice_a", 0)>>, Label("outa", 0), 0, NoInput)>>)

AudioInputs(music) ==
    <<Input("voice", 0)>> \o (IF music THEN <<Input("music", 0)>> ELSE <<>>)

Maps == <<Label("outv", 0), Label("outa", 0)>>

\* VideoGenerator._build_ffmpeg_command
VideoGenerator_filter_graph(n, durations, subtitles, music) ==
    [inputs |-> [i \in 1..n |-> Input("image", i - 1)] \o AudioInputs(music),
     filters |->
        [i \in 1..n |-> Filter("scale", <<InRef(i - 1, "v")>>, Label("v", i - 1), 0,
                               Input("image", i - 1))]
        \o (IF n > 1
            THEN [i \in 1..(n - 1) |->
                    Filter("xfade",
                           <<IF i = 1 THEN Label("v", 0) ELSE Label("xf", i - 1),
                             Label("v", i)>>,
                           IF i < n - 1 THEN Label("xf", i) ELSE Label("vconcat", 0),
                           format_offset(xfade_offset(durations, i)), NoInput)]
            ELSE <<Filter("copy", <<Label("v", 0)>>, Label("vconcat", 0), 0, NoInput)>>)
        \o VideoTailFilters(subtitles)
        \o AudioFilters(n, music),
     maps |-> Maps]

\* VideoRenderer.build_ffmpeg_command, for arguments it does not raise on
VideoRenderer_filter_graph(inp) ==
    LET visuals == VideoRenderer_visuals(inp)
        subtitles == inp.subtitle_path /\ inp.subtitle_exists
        before == Len(visuals) - inp.n
        item(k) == IF visuals[k].kind = "image" THEN k - 1 - before ELSE 0
        node(k) == IF visuals[k].kind = "background" THEN Label("vconcat", 0)
                   ELSE IF visuals[k].kind = "image" THEN Label("v_img_", item(k))
                   ELSE Label("v_" \o visuals[k].kind, 0)
        scale == [k \in 1..Len(visuals) |->
                    Filter("scale", <<InRef(k - 1, "v")>>, node(k), 0,
                           Input(visuals[k].kind, item(k)))]
        slideshow_nodes == [i \in 1..inp.n |-> Label("v_img_", i - 1)]
        crossfaded == inp.transitions /\ inp.n > 1
        xfade == IF crossfaded
                 THEN [i \in 1..(inp.n - 1) |->
                         Filter("xfade",
                                <<IF i = 1 THEN slideshow_nodes[1]
                                  ELSE Label("v_slide_out_", i - 1),
                                  slideshow_nodes[i + 1]>>,
                                Label("v_slide_out_", i),
                                format_offset(xfade_offset(inp.durations, i)), NoInput)]
                 ELSE <<>>
        concat_nodes == [k \in 1..before |-> node(k)]
                          \o (IF crossfaded THEN <<Label("v_slide_out_", inp.n - 1)>>
                              ELSE slideshow_nodes)
        final == IF Len(concat_nodes) > 1
                 THEN <<Filter("concat", concat_nodes, Label("vconcat", 0), 0, NoInput)>>
                 ELSE <<Filter("copy", concat_nodes, Label("vconcat", 0), 0, NoInput)>>
    IN  [inputs |-> [k \in 1..Len(visuals) |-> Input(visuals[k].kind, item(k))]
                      \o AudioInputs(inp.music),
         filters |-> scale
                       \o (IF inp.background THEN <<>> ELSE xfade \o final)
                       \o VideoTailFilters(subtitles)
                       \o AudioFilters(Len(visuals), inp.music),
         maps |-> Maps]

\* what one render did, in order
VideoGenerator_generate_steps(subtitles) ==
    <<"create_video_output">>
      \o (IF subtitles THEN <<"write_subtitles">> ELSE <<>>)
      \o <<"build_command", "write_command_file", "compositor">>

VideoRenderer_render_video_steps(raised) ==
    IF raised THEN <<"build_command">>
    ELSE <<"build_command", "write_command_file", "compositor">>

\* segs_len voice segments back to back, GridStep long each, as the TTS stage returns
\* them; the audio lasts to the end of the last one
RenderSegments(segs_len) ==
    [k \in 1..segs_len |-> [start |-> (k - 1) * GridStep, end |-> k * GridStep]]

\* planned durations: the minimum, one and four GridSteps above it, and a third of
\* ten seconds, as ten seconds split evenly over three images
RenderDurations ==
    {MIN_IMAGE_DURATION * Scale, (MIN_IMAGE_DURATION + GridStep) * Scale,
     (MIN_IMAGE_DURATION + 4 * GridStep) * Scale, (100 * Scale) \div 3}

\* arguments of VideoGenerator.generate: the images, the voice segments, the dialogue
\* (absent, or of some length), and whether an earlier render left subtitles.srt
GeneratorInputs(n) ==
    {[NoRender EXCEPT !.phase = "input", !.impl = "generator", !.n = n,
                      !.segs_len = segs_len, !.dialogue_given = given,
                      !.dialogue_len = IF given THEN dialogue_len ELSE 0,
                      !.subtitle_exists = stale, !.music = music] :
        segs_len \in 0..MaxSegs, given \in BOOLEAN,
        dialogue_len \in 0..MaxSegs, stale \in BOOLEAN, music \in BOOLEAN}

\* arguments of VideoRenderer.render_video
RendererInputs(n) ==
    {[NoRender EXCEPT !.phase = "input", !.impl = "renderer", !.n = n,
                        !.durations = durations, !.cover = cover,
                        !.cover_duration = IF long THEN COVER_SECOND * Scale ELSE 0,
                        !.background = background, !.intro = intro,
                        !.transitions = transitions,
                        !.subtitle_path = subtitle[1], !.subtitle_exists = subtitle[2],
                        !.music = music] :
          durations \in [1..n -> RenderDurations], cover \in BOOLEAN, long \in BOOLEAN,
          background \in BOOLEAN, intro \in BOOLEAN, transitions \in BOOLEAN,
          music \in BOOLEAN,
          subtitle \in {<<FALSE, FALSE>>, <<TRUE, FALSE>>, <<TRUE, TRUE>>}}

\* the store and files of a Generation whose dialogue, audio and n images are done
ReadyToRender(n) ==
    /\ Quiescent(PersistedStore(<<TRUE>>, <<TRUE>>, [k \in 1..n |-> TRUE], <<>>, FALSE),
                 [NoFiles EXCEPT !.dialogue = TRUE, !.audio = TRUE,
                                 !.images = ImageLabels(n)])
    /\ env = [google_key |-> TRUE, eleven_key |-> TRUE, mode |-> "static"]
    /\ timeline = NoTimeline

\* the same Generation after a video attempt that failed: its two video_outputs rows,
\* status failed and the error message of the failure
FailedToRender(n) ==
    /\ Quiescent(PersistedStore(<<TRUE>>, <<TRUE>>, [k \in 1..n |-> TRUE], <<FALSE>>, TRUE),
                 [NoFiles EXCEPT !.dialogue = TRUE, !.audio = TRUE,
                                 !.images = ImageLabels(n)])
    /\ env = [google_key |-> TRUE, eleven_key |-> TRUE, mode |-> "static"]
    /\ timeline = NoTimeline

RenderInit ==
    /\ \E n \in 0..MaxStills : render \in GeneratorInputs(n) \cup RendererInputs(n)
    /\ imaging = NoImaging
    /\ pair = NoPair
    /\ tui = PodcastGeneratorApp_init
    /\ calc = NoCalc
    /\ \/ ReadyToRender(render.n)
       \/ render.impl = "generator" /\ FailedToRender(render.n)

\* VideoGenerator.generate(generation_id, image_paths, audio_path, audio_duration,
\* voice_segments, output_dir, dialogue)
GenerateVideo ==
    /\ render.phase = "input"
    /\ render.impl = "generator"
    /\ \E answer \in CompositorAnswers :
          LET voice_segments == RenderSegments(render.segs_len)
              durations == VideoGenerator_calculate_image_durations(
                               render.segs_len * GridStep, voice_segments, render.n)
              subtitles == VideoGenerator_creates_subtitles(
                               render.dialogue_given, render.dialogue_len, render.segs_len)
              image_paths == [i \in 1..render.n |-> ImageFile(i - 1)]
              r == VideoGenerator_generate(db, files, image_paths, answer)
          IN  /\ db' = r.db
              /\ files' = r.files
              /\ statusLog' = Log(statusLog, r.db.generation.status)
              /\ render' = [render EXCEPT
                    !.phase = "done",
                    !.durations = durations,
                    !.subtitle_path = subtitles,
                    !.subtitle_exists = subtitles \/ render.subtitle_exists,
                    !.subtitle_written = subtitles,
                    !.cmd = VideoGenerator_build_ffmpeg_command(
                                render.n, durations, subtitles, subtitles),
                    !.graph = VideoGenerator_filter_graph(
                                  render.n, durations, subtitles, render.music),
                    !.steps = VideoGenerator_generate_steps(subtitles),
                    !.raised = IF r.raised = "" THEN "" ELSE "compositor"]
    /\ UNCHANGED <<env, op, pc, loc, calls, ran, skipped, lastRaise, snapshot, nops,
                   timeline, imaging, pair, calc, tui>>

\* VideoRenderer.render_video: build the command, save it, run it with check=True
RenderVideo ==
    /\ render.phase = "input"
    /\ render.impl = "renderer"
    /\ \E answer \in CompositorAnswers :
          LET b == VideoRenderer_build_ffmpeg_command(render)
          IN  render' = [render EXCEPT
                 !.phase = "done",
                 !.cmd = IF b.raised THEN NoCommand ELSE b.cmd,
                 !.graph = IF b.raised THEN NoGraph
                           ELSE VideoRenderer_filter_graph(render),
                 !.steps = VideoRenderer_render_video_steps(b.raised),
                 !.raised = IF b.raised THEN "build"
                            ELSE IF answer = "ok" THEN "" ELSE "compositor"]
    /\ UNCHANGED <<orchVars, timeline, imaging, pair, calc, tui>>

RenderNext == GenerateVideo \/ RenderVideo

SpecRender == RenderInit /\ [][RenderNext]_vars

(***************************************************************************)
(* One call of the image stage, attempt by attempt.                        *)
(***************************************************************************)
\* what one request to the image service comes back with
Responses == {"no_candidates", "blocked", "no_image_data", "exception", "image"}

update_image_request_success_keywords ==
    {"req_id", "image_path", "success", "duration_seconds", "retry_count"}

update_image_request_failure_keywords ==
    {"req_id", "image_path", "success", "error_message", "retry_count"}

\* the for loop of _generate_image_with_retry from the given attempt on.  events:
\* "call" a request to the image service, "image" the image file written from its
\* data, "delay" time.sleep(RETRY_DELAY_SECONDS).  An "image" response writes the
\* file and calls update_image_request inside the try: when that call does not bind,
\* its TypeError is caught by `except Exception` and the attempt counts as failed.
RECURSIVE ImageGenerator_attempts(_, _)
ImageGenerator_attempts(responses, attempt) ==
    IF attempt >= MAX_RETRIES
    THEN [events |-> <<>>, returned |-> FALSE]
    ELSE LET delay == IF attempt < MAX_RETRIES - 1 THEN <<"delay">> ELSE <<>>
             rest == ImageGenerator_attempts(responses, attempt + 1)
         IN  IF responses[attempt + 1] = "image"
             THEN IF Binds(update_image_request_parameters,
                           update_image_request_success_keywords)
                  THEN [events |-> <<"call", "image">>, returned |-> TRUE]
                  ELSE [events |-> <<"call", "image">> \o delay \o rest.events,
                        returned |-> rest.returned]
             ELSE [events |-> <<"call">> \o delay \o rest.events,
                   returned |-> rest.returned]

\* _generate_image_with_retry: "success" and "failure" are its two return values,
\* "raised" the TypeError of the update_image_request call that follows the loop
ImageGenerator_retry(responses) ==
    LET a == ImageGenerator_attempts(responses, 0)
    IN  [events |-> a.events,
         outcome |-> IF a.returned THEN "success"
                     ELSE IF Binds(update_image_request_parameters,
                                   update_image_request_failure_keywords)
                     THEN "failure"
                     ELSE "raised"]

\* the for loop of ImageGenerator.generate from scene i (as enumerate counts) on:
\* "cooldown" is time.sleep(10), "failed" the else branch of `if success`, "raised"
\* an exception leaving the loop
RECURSIVE ImageGenerator_scene_events(_, _)
ImageGenerator_scene_events(scenes, i) ==
    IF i >= Len(scenes)
    THEN <<>>
    ELSE IF ~scenes[i + 1].prompt
    THEN ImageGenerator_scene_events(scenes, i + 1)
    ELSE LET r == ImageGenerator_retry(scenes[i + 1].responses)
         IN  IF r.outcome = "raised"
             THEN r.events \o <<"raised">>
             ELSE IF r.outcome = "success"
             THEN r.events
                  \o (IF i < Len(scenes) - 1 THEN <<"cooldown">> ELSE <<>>)
                  \o ImageGenerator_scene_events(scenes, i + 1)
             ELSE r.events \o <<"failed">> \o ImageGenerator_scene_events(scenes, i + 1)

ResponseLists == [1..MAX_RETRIES -> Responses]

\* scenes[:image_count]: a scene without a prompt, or one with a prompt and what the
\* image service answers to each request made for it
Shot == {[prompt |-> FALSE, responses |-> [k \in 1..MAX_RETRIES |-> "exception"]]} \cup
        {[prompt |-> TRUE, responses |-> l] : l \in [1..MAX_RETRIES -> {"image", "exception"}]}

ShotLists == UNION {[1..k -> Shot] : k \in 0..MaxShots}

HasImage(responses) == \E k \in 1..MAX_RETRIES : responses[k] = "image"

ImagingInputs ==
    {[NoImaging EXCEPT !.phase = "input", !.call = "retry", !.responses = l] :
        l \in ResponseLists} \cup
    {[NoImaging EXCEPT !.phase = "input", !.call = "generate", !.scenes = l] :
        l \in ShotLists}

\* a Generation whose dialogue and audio are done
ImagingInit ==
    /\ imaging \in ImagingInputs
    /\ Quiescent(PersistedStore(<<TRUE>>, <<TRUE>>, <<>>, <<>>, FALSE),
                 [NoFiles EXCEPT !.dialogue = TRUE, !.audio = TRUE])
    /\ env = [google_key |-> TRUE, eleven_key |-> TRUE, mode |-> "static"]
    /\ timeline = NoTimeline
    /\ render = NoRender
    /\ pair = NoPair
    /\ tui = PodcastGeneratorApp_init
    /\ calc = NoCalc

\* _generate_image_with_retry(prompt, output_path, req_id) for a request just created
RetryImage ==
    /\ imaging.phase = "input"
    /\ imaging.call = "retry"
    /\ LET d1 == create_image_request(db, 0)
           r == ImageGenerator_retry(imaging.responses)
           c == ImageGenerator_generate_image_with_retry(
                    d1, Len(d1.image_requests), ImageFile(0), HasImage(imaging.responses))
       IN  /\ db' = c.db
           /\ files' = IF c.written THEN [files EXCEPT !.images = @ \cup {ImageFile(0)}]
                       ELSE files
           /\ imaging' = [imaging EXCEPT !.phase = "done", !.events = r.events,
                                         !.outcome = r.outcome]
    /\ UNCHANGED <<env, op, pc, loc, calls, ran, skipped, lastRaise, statusLog, snapshot,
                   nops, timeline, render, pair, calc, tui>>

\* ImageGenerator.generate(generation_id, dialogue, summary, output_dir)
GenerateImages ==
    /\ imaging.phase = "input"
    /\ imaging.call = "generate"
    /\ LET scenes == [k \in 1..Len(imaging.scenes) |->
                         [prompt |-> imaging.scenes[k].prompt,
                          data |-> HasImage(imaging.scenes[k].responses)]]
           r == ImageGenerator_generate(db, files, [extracted |-> TRUE, scenes |-> scenes])
       IN  /\ db' = r.db
           /\ files' = r.files
           /\ statusLog' = Log(statusLog, r.db.generation.status)
           /\ imaging' = [imaging EXCEPT
                 !.phase = "done",
                 !.events = ImageGenerator_scene_events(imaging.scenes, 0),
                 !.outcome = IF r.raised = "" THEN "returned" ELSE "raised",
                 !.value = r.value]
    /\ UNCHANGED <<env, op, pc, loc, calls, ran, skipped, lastRaise, snapshot, nops,
                   timeline, render, pair, calc, tui>>

ImagingNext == RetryImage \/ GenerateImages

SpecImages == ImagingInit /\ [][ImagingNext]_vars

(***************************************************************************)
(* Two Generations on one store.  Each thread has its own connection to    *)
(* the same database file; every Database method is one committed          *)
(* statement, so it is one step.  A row's id is its position in its table. *)
(***************************************************************************)
Threads == {"A", "B"}

PairStages == <<"dialogue", "audio", "image", "video">>

PairRank(stage) == CHOOSE k \in 1..Len(PairStages) : PairStages[k] = stage

TableOf(stage) ==
    IF stage = "dialogue" THEN "dialogue_requests"
    ELSE IF stage = "audio" THEN "audio_requests"
    ELSE IF stage = "image" THEN "image_requests"
    ELSE "video_outputs"

CompleteStatus(stage) ==
    IF stage = "dialogue" THEN "dialogue_complete"
    ELSE IF stage = "audio" THEN "audio_complete"
    ELSE IF stage = "image" THEN "images_complete"
    ELSE "completed"

EmptyTables ==
    [generations |-> <<>>, dialogue_requests |-> <<>>, audio_requests |-> <<>>,
     image_requests |-> <<>>, video_outputs |-> <<>>]

\* INSERT INTO generations (..., status) VALUES (..., 'pending')
Database_create_generation(store) ==
    [store EXCEPT !.generations = Append(@, [status |-> "pending", error_message |-> ""])]

\* an UPDATE of generations that has no WHERE clause
Database_update_generation_status_everywhere(store, gen_id, status, error_message) ==
    [store EXCEPT !.generations =
        [k \in DOMAIN @ |->
            [status |-> status,
             error_message |-> IF error_message # "" THEN error_message
                               ELSE @[k].error_message]]]

\* UPDATE generations SET status = ?[, error_message = ?] WHERE id = ?
Database_update_generation_status(store, gen_id, status, error_message) ==
    [store EXCEPT !.generations =
        [k \in DOMAIN @ |->
            IF k = gen_id
            THEN [status |-> status,
                  error_message |-> IF error_message # "" THEN error_message
                                    ELSE @[k].error_message]
            ELSE @[k]]]

\* INSERT INTO <table> (generation_id, ...): create_dialogue_request,
\* create_audio_request, create_image_request, create_video_output
Database_create_request(store, table, generation_id, success, error_message) ==
    [store EXCEPT ![table] =
        Append(@, [generation_id |-> generation_id, success |-> success,
                   error_message |-> error_message])]

\* UPDATE <table> SET success = ?, error_message = ? WHERE id = ?:
\* update_dialogue_request, update_audio_request, update_image_request
Database_update_request(store, table, req_id, success, error_message) ==
    [store EXCEPT ![table] =
        [k \in DOMAIN @ |->
            IF k = req_id
            THEN [@[k] EXCEPT !.success = success, !.error_message = error_message]
            ELSE @[k]]]

\* the store of a Generation that is resumed at the stage start: its generations row
\* and one successful row for each earlier stage
RECURSIVE Persisted(_, _, _)
Persisted(store, start, k) ==
    IF k >= PairRank(start)
    THEN [store EXCEPT !.generations[Len(store.generations)].status =
             IF PairRank(start) = 1 THEN "pending"
             ELSE CompleteStatus(PairStages[PairRank(start) - 1])]
    ELSE Persisted(Database_create_request(store, TableOf(PairStages[k]),
                                           Len(store.generations), TRUE, ""),
                   start, k + 1)

NewThread(gen, start) ==
    [gen |-> gen, start |-> start, stage |-> start, pc |-> "create", req_id |-> 0,
     ok |-> TRUE, choices |-> <<>>, log |-> <<>>]

\* each thread is a fresh run (its Generation not created yet) or the stages of a
\* resumed Generation from some stage on
PairInputs ==
    {LET sA == IF a = "fresh" THEN EmptyTables
               ELSE Persisted(Database_create_generation(EmptyTables), a, 1)
         sB == IF b = "fresh" THEN sA
               ELSE Persisted(Database_create_generation(sA), b, 1)
         genA == IF a = "fresh" THEN 0 ELSE 1
         genB == IF b = "fresh" THEN 0 ELSE Len(sB.generations)
         tA == [NewThread(genA, IF a = "fresh" THEN "dialogue" ELSE a) EXCEPT
                   !.pc = IF a = "fresh" THEN "new" ELSE "create",
                   !.log = IF a = "fresh" THEN <<>> ELSE <<sB.generations[genA].status>>]
         tB == [NewThread(genB, IF b = "fresh" THEN "dialogue" ELSE b) EXCEPT
                   !.pc = IF b = "fresh" THEN "new" ELSE "create",
                   !.log = IF b = "fresh" THEN <<>> ELSE <<sB.generations[genB].status>>]
     IN  [store |-> sB, thread |-> [t \in Threads |-> IF t = "A" THEN tA ELSE tB]] :
        a \in {"fresh", "audio", "image", "video"},
        b \in {"fresh", "audio", "image", "video"}}

PairInit ==
    /\ pair \in PairInputs
    /\ tui = PodcastGeneratorApp_init
    /\ Quiescent(PersistedStore(<<>>, <<>>, <<>>, <<>>, FALSE), NoFiles)
    /\ env = [google_key |-> TRUE, eleven_key |-> TRUE, mode |-> "static"]
    /\ timeline = NoTimeline
    /\ render = NoRender
    /\ imaging = NoImaging
    /\ calc = NoCalc

\* what every observer of the store sees after a statement: each Generation's status
Observe(store, thread) ==
    [t \in Threads |->
        IF thread[t].gen = 0 THEN thread[t]
        ELSE [thread[t] EXCEPT
                 !.log = IF @ = <<>> THEN <<store.generations[thread[t].gen].status>>
                         ELSE Log(@, store.generations[thread[t].gen].status)]]

PairStep(store, thread) ==
    /\ pair' = [store |-> store, thread |-> Observe(store, thread)]
    /\ UNCHANGED <<orchVars, timeline, render, imaging, calc, tui>>

\* db.create_generation(topic_key, topic_name) of a fresh run
CreateGeneration(t) ==
    /\ pair.thread[t].pc = "new"
    /\ LET store == Database_create_generation(pair.store)
       IN  PairStep(store, [pair.thread EXCEPT ![t].gen = Len(store.generations),
                                               ![t].pc = "create"])

\* the first statement of a stage's generate: create_<stage>_request, or the
\* placeholder create_video_output(generation_id, "", 0, resolution, 0, False)
CreateRequest(t) ==
    /\ pair.thread[t].pc = "create"
    /\ LET me == pair.thread[t]
           store == Database_create_request(pair.store, TableOf(me.stage), me.gen,
                                            FALSE, "")
       IN  PairStep(store, [pair.thread EXCEPT
                               ![t].req_id = Len(store[TableOf(me.stage)]),
                               ![t].pc = "update"])

\* the stage's work returned or raised (ok), and its result is stored:
\* update_<stage>_request(req_id, ...), or for the video a second create_video_output.
\* update_image_request is called with keywords it does not accept: nothing is
\* written and the stage fails.
UpdateRequest(t) ==
    /\ pair.thread[t].pc = "update"
    /\ \E ok \in BOOLEAN :
          LET me == pair.thread[t]
              binds == me.stage # "image"
              store == IF me.stage = "video"
                       THEN Database_create_request(
                                pair.store, "video_outputs", me.gen, ok,
                                IF ok THEN "" ELSE "FFmpeg failed")
                       ELSE IF binds
                       THEN Database_update_request(
                                pair.store, TableOf(me.stage), me.req_id, ok,
                                IF ok THEN "" ELSE "error")
                       ELSE pair.store
          IN  PairStep(store, [pair.thread EXCEPT
                                  ![t].ok = ok /\ binds,
                                  ![t].choices = Append(@, ok /\ binds),
                                  ![t].pc = "status"])

\* the stage's last statement: update_generation_status(generation_id, ...)
UpdateStatus(t) ==
    /\ pair.thread[t].pc = "status"
    /\ LET me == pair.thread[t]
           store == IF me.ok
                    THEN Database_update_generation_status(
                             pair.store, me.gen, CompleteStatus(me.stage), "")
                    ELSE Database_update_generation_status(
                             pair.store, me.gen, "failed", "generation failed")
           last == PairRank(me.stage) = Len(PairStages)
       IN  PairStep(store, [pair.thread EXCEPT
                               ![t].pc = IF me.ok /\ ~last THEN "create" ELSE "done",
                               ![t].stage = IF me.ok /\ ~last
                                            THEN PairStages[PairRank(me.stage) + 1]
                                            ELSE me.stage])

PairNext ==
    \E t \in Threads :
        \/ CreateGeneration(t)
        \/ CreateRequest(t)
        \/ UpdateRequest(t)
        \/ UpdateStatus(t)

SpecPair == PairInit /\ [][PairNext]_vars

(***************************************************************************)
(* The subtitle writer.  Times are in units of 0.1 ms, so that what        *)
(* _format_srt_time drops is visible; a written time is in milliseconds.   *)
(***************************************************************************)
\* a formatter that rounds to the nearest millisecond
format_srt_time_rounded(seconds) ==
    LET t == seconds + 5
    IN  [hours |-> t \div 36000000, minutes |-> (t % 36000000) \div 600000,
         secs |-> (t % 600000) \div 10000, millis |-> (t % 10000) \div 10]

\* _format_srt_time: int(seconds // 3600), int((seconds % 3600) // 60),
\* int(seconds % 60), int((seconds % 1) * 1000)
format_srt_time(seconds) ==
    [hours |-> seconds \div 36000000, minutes |-> (seconds % 36000000) \div 600000,
     secs |-> (seconds % 600000) \div 10000, millis |-> (seconds % 10000) \div 10]

\* the time an SRT reader takes from HH:MM:SS,mmm, in milliseconds
SrtMillis(w) == ((w.hours * 60 + w.minutes) * 60 + w.secs) * 1000 + w.millis

Min(a, b) == IF a <= b THEN a ELSE b

\* the entries written for zip(dialogue, voice_segments): number, times, and the
\* dialogue line whose text is written
SubtitleEntries(dialogue_len, voice_segments) ==
    [i \in 1..Min(dialogue_len, Len(voice_segments)) |->
        LET segment == voice_segments[i]
            start_time == IF i = 1 THEN Max(segment.start, FADE_DURATION)
                          ELSE segment.start
        IN  [number |-> i, line |-> i,
             start |-> format_srt_time(start_time),
             end |-> format_srt_time(segment.end)]]

VideoGenerator_create_subtitle_file(dialogue_len, voice_segments) ==
    SubtitleEntries(dialogue_len, voice_segments)

VideoRenderer_create_subtitle_file(dialogue_len, voice_segments) ==
    SubtitleEntries(dialogue_len, voice_segments)

\* 0 s, 0.125 s, 1.2345 s, 2.5 s, 1 h 0.0005 s
SubtitleTimes == {0, 1250, 12345, 25000, 36000005}

SubtitleSegment == {seg \in [start : SubtitleTimes, end : SubtitleTimes] : seg.start < seg.end}

SubtitleSegmentLists ==
    {segs \in UNION {[1..k -> SubtitleSegment] : k \in 0..MaxLines} :
        \A k \in 1..(Len(segs) - 1) : segs[k].end <= segs[k + 1].start}

SubtitleInit ==
    /\ Quiescent(EmptyStore, NoFiles)
    /\ env = [google_key |-> FALSE, eleven_key |-> FALSE, mode |-> "static"]
    /\ timeline = NoTimeline
    /\ render = NoRender
    /\ imaging = NoImaging
    /\ pair = NoPair
    /\ tui = PodcastGeneratorApp_init
    /\ calc \in [phase : {"input"}, fn : {"generator", "renderer"},
                 args : (0..MaxLines) \X SubtitleSegmentLists, result : {<<>>}]

WriteSubtitles ==
    /\ calc.phase = "input"
    /\ calc' = [calc EXCEPT
          !.phase = "done",
          !.result = IF calc.fn = "generator"
                     THEN VideoGenerator_create_subtitle_file(calc.args[1], calc.args[2])
                     ELSE VideoRenderer_create_subtitle_file(calc.args[1], calc.args[2])]
    /\ UNCHANGED <<orchVars, timeline, render, imaging, pair, tui>>

SubtitleNext == WriteSubtitles

SpecSubtitles == SubtitleInit /\ [][SubtitleNext]_vars

(***************************************************************************)
(* The timing AudioGenerator.generate derives from the TTS response.       *)
(* Times are in milliseconds, speed ratios in hundredths.                  *)
(***************************************************************************)
\* seg.get("end_time_seconds", 0)
end_time_seconds(seg) == IF seg.has_end THEN seg.end ELSE 0

RECURSIVE MaxOf(_)
MaxOf(values) ==
    IF Len(values) = 1 THEN Head(values) ELSE Max(Head(values), MaxOf(Tail(values)))

AudioGenerator_duration_of_last(voice_segments) ==
    IF voice_segments = <<>> THEN 0
    ELSE end_time_seconds(voice_segments[Len(voice_segments)])

\* duration_seconds = 0.0, or the largest end_time_seconds when there are segments
AudioGenerator_duration(voice_segments) ==
    IF voice_segments = <<>> THEN 0
    ELSE MaxOf([k \in 1..Len(voice_segments) |-> end_time_seconds(voice_segments[k])])

\* abs(speed_ratio - 1.0) > 0.01
SpeedupRequested(speed_ratio) ==
    speed_ratio - 100 > 1 \/ 100 - speed_ratio > 1

\* the segments after the speed step: every time key times 1 / speed_ratio when the
\* speed effect was requested and ffmpeg applied it, untouched otherwise
AudioGenerator_rescale(voice_segments, speed_ratio, effect_ok) ==
    IF SpeedupRequested(speed_ratio) /\ effect_ok
    THEN [k \in 1..Len(voice_segments) |->
            [voice_segments[k] EXCEPT
                !.end = IF voice_segments[k].has_end THEN (@ * 100) \div speed_ratio
                        ELSE @]]
    ELSE voice_segments

\* the AudioRequest row update_audio_request writes and the tuple generate returns
AudioGenerator_timing(voice_segments, speed_ratio, effect_ok) ==
    LET scaled == AudioGenerator_rescale(voice_segments, speed_ratio, effect_ok)
        duration_seconds == AudioGenerator_duration(scaled)
    IN  [row |-> [audio_path |-> AUDIO_FILE, duration_seconds |-> duration_seconds,
                  voice_segments |-> scaled, success |-> TRUE],
         value |-> <<AUDIO_FILE, duration_seconds, scaled>>]

\* the end times the TTS service may report, in any order; a segment may lack the key
AudioTimes == {0, 1000, 2500}

TtsSegment ==
    {[has_end |-> TRUE, end |-> t] : t \in AudioTimes} \cup {[has_end |-> FALSE, end |-> 0]}

TtsSegmentLists == UNION {[1..k -> TtsSegment] : k \in 0..MaxSegs}

\* config audio.speed_ratio: 0.5, 1.0 (the default), 1.25, 2.0
SpeedRatios == {50, 100, 125, 200}

AudioInit ==
    /\ Quiescent(PersistedStore(<<TRUE>>, <<>>, <<>>, <<>>, FALSE),
                 [NoFiles EXCEPT !.dialogue = TRUE])
    /\ env = [google_key |-> TRUE, eleven_key |-> TRUE, mode |-> "static"]
    /\ timeline = NoTimeline
    /\ render = NoRender
    /\ imaging = NoImaging
    /\ pair = NoPair
    /\ tui = PodcastGeneratorApp_init
    /\ calc \in [phase : {"input"}, fn : {"audio"},
                 args : TtsSegmentLists \X SpeedRatios \X BOOLEAN, result : {<<>>}]

\* AudioGenerator.generate(generation_id, dialogue, output_dir)
GenerateAudio ==
    /\ calc.phase = "input"
    /\ \E answer \in TtsAnswers :
          LET r == AudioGenerator_generate(db, files, "good", answer)
              timing == AudioGenerator_timing(calc.args[1], calc.args[2], calc.args[3])
          IN  /\ db' = r.db
              /\ files' = r.files
              /\ statusLog' = Log(statusLog, r.db.generation.status)
              /\ calc' = [calc EXCEPT
                    !.phase = IF r.raised = "" THEN "done" ELSE "raised",
                    !.result = IF r.raised = "" THEN timing ELSE <<>>]
    /\ UNCHANGED <<env, op, pc, loc, calls, ran, skipped, lastRaise, snapshot, nops,
                   timeline, render, imaging, pair, tui>>

AudioNext == GenerateAudio

SpecAudio == AudioInit /\ [][AudioNext]_vars

\* C9: for every N > 0 and every well-formed segment list the planned durations sum
\* to at least audio_duration + 2.0, in the segment-grouping branch and in the
\* uniform fallback alike.
C9_SumCoversPaddedAudio ==
    (timeline.phase = "planned" /\ timeline.num_images > 0)
        => /\ SumSeq(timeline.generator) >= (timeline.audio_duration + TAIL_PADDING) * Scale
           /\ SumSeq(timeline.renderer) >= (timeline.audio_duration + TAIL_PADDING) * Scale

\* C10: for every N > 0 every planned duration is at least 0.5 s, in both branches.
C10_EachDurationAtLeastHalfSecond ==
    (timeline.phase = "planned" /\ timeline.num_images > 0)
        => /\ \A i \in 1..Len(timeline.generator) :
                  timeline.generator[i] >= MIN_IMAGE_DURATION * Scale
           /\ \A i \in 1..Len(timeline.renderer) :
                  timeline.renderer[i] >= MIN_IMAGE_DURATION * Scale

\* the index range [start_idx, end_idx] the planner reads for image i of the planned
\* timeline, and the group of image i when the segments are dealt into N disjoint
\* contiguous groups
RangeOf(i) ==
    start_idx(i, Len(timeline.voice_segments), timeline.num_images)
      .. end_idx(i, Len(timeline.voice_segments), timeline.num_images)

GroupOf(i) ==
    SegmentIndex(i - 1, Len(timeline.voice_segments), timeline.num_images)
      .. (SegmentIndex(i, Len(timeline.voice_segments), timeline.num_images) - 1)

Grouped ==
    /\ timeline.phase = "planned"
    /\ timeline.num_images > 0
    /\ UsesSegments(timeline.voice_segments, timeline.num_images)

\* C11: when segmentCount >= N > 0 the index ranges [start_idx, end_idx] of the N
\* images partition 0..segmentCount-1: every segment index lies in exactly one range.
C11_RangesPartitionSegments ==
    Grouped =>
        \A k \in 0..(Len(timeline.voice_segments) - 1) :
            Cardinality({i \in 1..timeline.num_images : k \in RangeOf(i)}) = 1

\* C12: when segmentCount >= N > 0 the duration of image i is the end of the last
\* segment of group i minus the start of the first segment of group i, floored at
\* 0.5, plus 2.0 for the final image; six segments for three images give 6.0, 7.0, 5.0.
C12_DurationSpansOwnGroup ==
    Grouped =>
        /\ \A i \in 1..timeline.num_images :
              LET first == CHOOSE k \in GroupOf(i) : \A j \in GroupOf(i) : k <= j
                  last == CHOOSE k \in GroupOf(i) : \A j \in GroupOf(i) : k >= j
                  span == timeline.voice_segments[last + 1].end
                            - timeline.voice_segments[first + 1].start
                  planned == Max(MIN_IMAGE_DURATION, span) * Scale
                               + (IF i = timeline.num_images THEN TAIL_PADDING * Scale ELSE 0)
              IN  timeline.generator[i] = planned /\ timeline.renderer[i] = planned
        /\ timeline.voice_segments = SixSegments
              => timeline.generator = <<60 * Scale, 70 * Scale, 50 * Scale>>

\* C13: with no segment or fewer segments than images, N > 0, the planner returns N
\* equal durations of (audio_duration + 2.0) / N (5.0 each for N = 4 and 18.0 s);
\* with N <= 0 it returns the empty list.
C13_UniformFallback ==
    timeline.phase = "planned" =>
        LET N == timeline.num_images
            uniform(d) ==
                /\ Len(d) = N
                /\ \A i \in 1..N : d[i] * N = (timeline.audio_duration + TAIL_PADDING) * Scale
        IN  /\ N <= 0 => (timeline.generator = <<>> /\ timeline.renderer = <<>>)
            /\ (N > 0 /\ ~UsesSegments(timeline.voice_segments, N))
                  => (uniform(timeline.generator) /\ uniform(timeline.renderer))

C13_Witness ==
    /\ timeline.phase = "planned"
    /\ timeline.num_images = 4
    /\ timeline.audio_duration = 180
    /\ timeline.voice_segments = <<>>
    /\ timeline.generator = <<50 * Scale, 50 * Scale, 50 * Scale, 50 * Scale>>
    /\ timeline.renderer = timeline.generator

(***************************************************************************)
(* Properties of one render.                                               *)
(***************************************************************************)
Rendered(impl) == render.phase = "done" /\ render.impl = impl

\* the time boxes of the command's visuals, in order
Shown == [k \in 1..Len(render.cmd.visuals) |-> render.cmd.visuals[k].shown]

Position(steps, step) == CHOOSE k \in 1..Len(steps) : steps[k] = step

Occurrences(steps, step) == Cardinality({k \in 1..Len(steps) : steps[k] = step})

CoverRequested == render.cover /\ render.cover_duration > 0

\* C14: when a cover is requested the timeline handed to the compositor is
\* [1.0, max(0.5, d0 - 1.0), d1, ...] for planned durations [d0, d1, ...].
C14_CoverShortensFirstStill ==
    (Rendered("renderer") /\ CoverRequested /\ render.n > 0
       /\ ~render.background /\ ~render.intro)
        => Shown = <<COVER_SECOND * Scale,
                     Max(MIN_IMAGE_DURATION * Scale,
                         render.durations[1] - COVER_SECOND * Scale)>>
                   \o Tail(render.durations)

\* C15: a render given zero images and no cover, background or intro clip raises
\* before the compositor is invoked and builds no command that reads a visual
\* stream no input provides, in VideoGenerator and in VideoRenderer alike.
C15_NothingToRenderRaises ==
    (render.phase = "done" /\ render.n = 0 /\ ~CoverRequested
       /\ ~render.background /\ ~render.intro)
        => /\ render.raised # ""
           /\ Occurrences(render.steps, "compositor") = 0
           /\ render.cmd.reads \subseteq render.cmd.defines

\* C16: VideoGenerator.generate writes and burns in a subtitle file exactly when
\* dialogue and voice segments have equal non-zero lengths; otherwise it writes
\* none, the command has no subtitle filter, and the compositor is still invoked.
C16_SubtitlesNeedMatchingLengths ==
    Rendered("generator") =>
        IF render.dialogue_given /\ render.dialogue_len > 0
              /\ render.dialogue_len = render.segs_len
        THEN render.subtitle_written /\ render.cmd.subtitles
        ELSE /\ ~render.subtitle_written
             /\ ~render.cmd.subtitles
             /\ Occurrences(render.steps, "compositor") = 1

C16_Witness ==
    /\ Rendered("generator")
    /\ render.dialogue_given
    /\ render.dialogue_len > 0
    /\ render.segs_len > render.dialogue_len
    /\ render.subtitle_exists
    /\ ~render.cmd.subtitles
    /\ Occurrences(render.steps, "compositor") = 1

\* C19: VideoGenerator.generate invokes the compositor exactly once, after writing
\* the command to ffmpeg_cmd.txt; on a non-zero exit it records a failed VideoOutput
\* carrying the diagnostics, sets the Generation to failed with that message, and
\* raises.
C19_CompositorOnceAndFailurePersisted ==
    Rendered("generator") =>
        /\ Occurrences(render.steps, "compositor") = 1
        /\ Occurrences(render.steps, "write_command_file") = 1
        /\ Position(render.steps, "write_command_file") < Position(render.steps, "compositor")
        /\ render.raised = "compositor" =>
              /\ db.video_outputs # <<>>
              /\ ~Last(db.video_outputs).success
              /\ Last(db.video_outputs).error_message # ""
              /\ db.generation.status = "failed"
              /\ db.generation.error_message = Last(db.video_outputs).error_message

C19_Witness ==
    /\ Rendered("generator")
    /\ render.n > 0
    /\ render.raised = "compositor"
    /\ db.generation.status = "failed"

(***************************************************************************)
(* Properties of one call of the image stage.                              *)
(***************************************************************************)
Imaged(call) == imaging.phase = "done" /\ imaging.call = call

Events(e) == {k \in 1..Len(imaging.events) : imaging.events[k] = e}

FirstImage(responses) ==
    IF HasImage(responses)
    THEN CHOOSE k \in 1..MAX_RETRIES :
            responses[k] = "image" /\ \A j \in 1..(k - 1) : responses[j] # "image"
    ELSE MAX_RETRIES

\* C17: _generate_image_with_retry makes between 1 and MAX_RETRIES calls to the image
\* service and none after the first attempt that returns image data, every other
\* outcome consuming one attempt; it waits the retry delay exactly once between
\* consecutive attempts and not after the last; it returns success or failure.
C17_RetryIsBoundedAndStopsOnImage ==
    Imaged("retry") =>
        /\ Cardinality(Events("call")) = FirstImage(imaging.responses)
        /\ Cardinality(Events("delay")) = Cardinality(Events("call")) - 1
        /\ \A k \in Events("delay") :
              \E j \in Events("call") : j > k /\ \A m \in (k + 1)..(j - 1) : m \notin Events("delay")
        /\ imaging.outcome = (IF HasImage(imaging.responses) THEN "success" ELSE "failure")

\* C18: in ImageGenerator.generate a cooldown occurs between any two successive
\* successful image generations of one run, a failed image is followed by no
\* cooldown, and no cooldown is performed after the last scene.
C18_CooldownBetweenSuccesses ==
    Imaged("generate") =>
        /\ \A p \in Events("image") : \A q \in Events("image") :
              (p < q /\ \A m \in (p + 1)..(q - 1) : m \notin Events("image"))
                  => \E c \in Events("cooldown") : p < c /\ c < q
        /\ \A k \in Events("failed") : (k + 1) \notin Events("cooldown")
        /\ Len(imaging.events) \notin Events("cooldown")

(***************************************************************************)
(* Properties of two Generations on one store.                             *)
(***************************************************************************)
PairTables == {"dialogue_requests", "audio_requests", "image_requests", "video_outputs"}

\* the rows of Generation gen: its generations row and its request rows, by id
RowsOf(store, gen) ==
    [generation |-> store.generations[gen],
     requests |-> [table \in PairTables |->
                     {<<k, store[table][k]>> : k \in {j \in DOMAIN store[table] :
                                                        store[table][j].generation_id = gen}}]]

\* the status sequence of a Generation running alone from its start stage, given how
\* each of its stages ended
RECURSIVE AloneLog(_, _, _)
AloneLog(stage, choices, k) ==
    IF k > Len(choices) THEN <<>>
    ELSE IF choices[k] THEN <<CompleteStatus(stage)>> \o
             (IF PairRank(stage) < Len(PairStages)
              THEN AloneLog(PairStages[PairRank(stage) + 1], choices, k + 1) ELSE <<>>)
    ELSE <<"failed">>

StartStatus(start) ==
    IF PairRank(start) = 1 THEN "pending" ELSE CompleteStatus(PairStages[PairRank(start) - 1])

ObservedAsAlone ==
    \A t \in Threads :
        pair.thread[t].gen # 0 =>
            pair.thread[t].log =
                <<StartStatus(pair.thread[t].start)>>
                \o AloneLog(pair.thread[t].start,
                            IF pair.thread[t].pc = "status"
                            THEN SubSeq(pair.thread[t].choices, 1,
                                        Len(pair.thread[t].choices) - 1)
                            ELSE pair.thread[t].choices, 1)

LeavesOthersRows ==
    \A t \in Threads : \A u \in Threads \ {t} :
        (pair'.thread[t].pc # pair.thread[t].pc /\ pair.thread[u].gen # 0)
            => RowsOf(pair'.store, pair.thread[u].gen) = RowsOf(pair.store, pair.thread[u].gen)

\* C20: with two Generations A and B running concurrently, under every interleaving
\* of their store operations each write made for one leaves the other's generations
\* row and request rows unchanged, and each one's observed status sequence is the one
\* it has when running alone.
C20_GenerationsAreIsolated == [][LeavesOthersRows]_vars /\ []ObservedAsAlone

C20_Witness ==
    /\ pair.thread["A"].pc = "done"
    /\ pair.thread["B"].pc = "done"
    /\ pair.thread["A"].gen = 2
    /\ pair.thread["B"].gen = 1
    /\ Last(pair.thread["A"].log) = "failed"
    /\ pair.thread["B"].log = <<"pending", "dialogue_complete", "audio_complete", "failed">>
    /\ pair.store.dialogue_requests[1].generation_id = 2
    /\ pair.store.audio_requests[1].generation_id = 1

(***************************************************************************)
(* Properties of the stored status and of the request rows.                *)
(***************************************************************************)
LifecycleRank(status) == CHOOSE k \in 1..Len(Lifecycle) : Lifecycle[k] = status

InLifecycle(status) == \E k \in 1..Len(Lifecycle) : Lifecycle[k] = status

\* C21: over any sequence of update_generation_status calls on one Generation the
\* stored status never moves backwards in pending < dialogue_complete <
\* audio_complete < images_complete < completed, and a call repeating the stored
\* status leaves status, error_message and the artifact paths unchanged.
C21_StatusNeverMovesBackwards ==
    [][/\ (InLifecycle(db.generation.status) /\ InLifecycle(db'.generation.status))
              => LifecycleRank(db.generation.status) <= LifecycleRank(db'.generation.status)
       /\ update_generation_status(db, db.generation.status, "", "", "") = db]_vars

\* C22: every stage attempt creates exactly one StageRequest record, before the
\* external call, updates it with the outcome after the call, and never writes it
\* again once it is marked.  For the video attempt of one render: the attempt adds one
\* video_outputs row and that row carries the outcome of the compositor.
C22_OneRecordPerAttempt ==
    Rendered("generator") =>
        /\ Len(db.video_outputs) = 1
        /\ db.video_outputs[1].success = (render.raised = "")

\* the stage call r made on store d and files f aborted: its request row is a failure
\* with a message, the Generation is failed with a message, no file was written and
\* no artifact path was stored
StageAborted(r, d, f, table) ==
    /\ r.raised = "try"
    /\ r.db[table] # <<>>
    /\ ~Last(r.db[table]).success
    /\ Last(r.db[table]).error_message # ""
    /\ r.db.generation.status = "failed"
    /\ r.db.generation.error_message # ""
    /\ r.files = f
    /\ r.db.generation.dialogue_json_path = d.generation.dialogue_json_path
    /\ r.db.generation.audio_path = d.generation.audio_path

\* C23: a dialogue line lacking speaker or text (dialogue stage) or a speaker with no
\* voice mapping (audio stage) aborts the stage: the StageRequest is recorded as a
\* failure with the error message, the Generation becomes failed, no artifact file is
\* written, no artifact path is stored, and for the unknown speaker the TTS service
\* is never called.
C23_ValidationFailureAborts ==
    /\ StageAborted(DialogueGenerator_generate(db, files, "invalid_line"),
                    db, files, "dialogue_requests")
    /\ \A answer \in TtsAnswers :
          LET r == AudioGenerator_generate(db, files, "unknown_speaker", answer)
          IN  StageAborted(r, db, files, "audio_requests") /\ "tts" \notin r.calls
    /\ (pc = "raised" /\ lastRaise.stage = "audio" /\ lastRaise.at = "try"
          /\ loc.dialogue = "unknown_speaker")
        => /\ "tts" \notin calls
           /\ db.generation.status = "failed"
           /\ ~Last(db.audio_requests).success
           /\ files.audio = snapshot.files.audio

C23_Witness ==
    /\ op = "run"
    /\ pc = "raised"
    /\ lastRaise = [stage |-> "audio", at |-> "try"]
    /\ loc.dialogue = "unknown_speaker"
    /\ "tts" \notin calls
    /\ statusLog = <<"pending", "dialogue_complete", "failed">>

\* C24: in every reachable state of a fresh run, a Generation at dialogue_complete or
\* later has dialogue_json_path set, one at audio_complete or later has audio_path
\* set, and one at completed has video_path set.
C24_PathsFollowStatus ==
    op = "run" =>
        /\ db.generation.status \in {"dialogue_complete", "audio_complete",
                                     "images_complete", "completed"}
              => db.generation.dialogue_json_path # ""
        /\ db.generation.status \in {"audio_complete", "images_complete", "completed"}
              => db.generation.audio_path # ""
        /\ db.generation.status = "completed" => db.generation.video_path # ""

C24_Witness ==
    /\ op = "run"
    /\ db.generation.status = "audio_complete"
    /\ db.generation.dialogue_json_path = DIALOGUE_JSON
    /\ db.generation.audio_path = AUDIO_FILE
    /\ db.generation.video_path = ""

(***************************************************************************)
(* Properties of the subtitle writer.                                      *)
(***************************************************************************)
Written == calc.phase = "done" /\ calc.fn \in {"generator", "renderer"}

OneEntryPerPair ==
    /\ Len(calc.result) = Min(calc.args[1], Len(calc.args[2]))
    /\ \A i \in 1..Len(calc.result) : calc.result[i].number = i /\ calc.result[i].line = i

\* the written time w is t to the 0.1 ms / is t cut to whole milliseconds
WrittenExactly(w, t) == SrtMillis(w) * 10 = t

WrittenTruncated(w, t) == SrtMillis(w) = t \div 10

\* C25 as stated: one entry per (dialogue line, voice segment) pair, numbered 1..n in
\* dialogue order; the first entry starts at max(segment start, fade_duration) and
\* every other start and every end equals its segment's start and end.
C25_EntriesCarrySegmentTimes ==
    Written =>
        /\ OneEntryPerPair
        /\ \A i \in 1..Len(calc.result) :
              /\ WrittenExactly(calc.result[i].start,
                                IF i = 1 THEN Max(calc.args[2][i].start, FADE_DURATION)
                                ELSE calc.args[2][i].start)
              /\ WrittenExactly(calc.result[i].end, calc.args[2][i].end)

\* C25 amended: the same, with every written time equal to the time it stands for
\* cut down to whole milliseconds.
C25_EntriesCarryTruncatedTimes ==
    Written =>
        /\ OneEntryPerPair
        /\ \A i \in 1..Len(calc.result) :
              /\ WrittenTruncated(calc.result[i].start,
                                  IF i = 1 THEN Max(calc.args[2][i].start, FADE_DURATION)
                                  ELSE calc.args[2][i].start)
              /\ WrittenTruncated(calc.result[i].end, calc.args[2][i].end)

C25_Witness ==
    /\ Written
    /\ calc.args[1] = 3
    /\ Len(calc.args[2]) = 2
    /\ calc.args[2][1].start = 0
    /\ calc.args[2][2].start = 12345
    /\ Len(calc.result) = 2
    /\ SrtMillis(calc.result[1].start) = 300
    /\ SrtMillis(calc.result[2].start) = 1234

\* the builder returned a command
Returned(impl) == Rendered(impl) /\ render.raised # "build"

InputsOf(kinds) ==
    {k \in DOMAIN render.graph.inputs : render.graph.inputs[k].kind \in kinds}

FiltersOf(ops) ==
    {k \in DOMAIN render.graph.filters : render.graph.filters[k].op \in ops}

VisualKinds == {"background", "cover", "intro", "image"}

\* C26: with a background clip the command of VideoRenderer.build_ffmpeg_command has
\* exactly one visual input, the looped clip, and no cover, intro or still input and
\* no crossfade or concat node, whatever else is passed; without one it has no
\* looped background input.
C26_VisualModesAreExclusive ==
    Returned("renderer") =>
        IF render.background
        THEN /\ Cardinality(InputsOf(VisualKinds)) = 1
             /\ Cardinality(InputsOf({"background"})) = 1
             /\ InputsOf({"cover", "intro", "image"}) = {}
             /\ FiltersOf({"xfade", "concat"}) = {}
             /\ Len(render.cmd.visuals) = 1
        ELSE InputsOf({"background"}) = {}

C26_Witness ==
    /\ Returned("renderer")
    /\ render.background /\ CoverRequested /\ render.intro
    /\ render.n = 2 /\ render.transitions
    /\ render.graph.inputs[1] = Input("background", 0)
    /\ render.graph.inputs[2] = Input("voice", 0)

\* the offsets of the command's crossfades, in order, in hundredths of a second
XfadeOffsets ==
    LET xfades == SelectSeq(render.graph.filters, LAMBDA f : f.op = "xfade")
    IN  [k \in 1..Len(xfades) |-> xfades[k].offset]

\* a returned slideshow command with transitions over two or more stills
Crossfading ==
    /\ render.n >= 2
    /\ \/ Returned("generator")
       \/ Returned("renderer") /\ render.transitions /\ ~render.background

\* (d0 + ... + d(k-1)) - k * T, in ticks
CumulativeOffset(k) ==
    SumSeq(SubSeq(render.durations, 1, k)) - k * TRANSITION_DURATION * Scale

Distance(a, b) == IF a >= b THEN a - b ELSE b - a

\* C27: with transitions and n >= 2 stills of durations d0..d(n-1), crossfade k
\* (k = 1..n-1) is placed at offset (d0 + ... + d(k-1)) - k * T.
C27_CrossfadeAtCumulativeOffset ==
    Crossfading =>
        /\ Len(XfadeOffsets) = render.n - 1
        /\ \A k \in 1..(render.n - 1) :
              XfadeOffsets[k] * TicksPerCenti = CumulativeOffset(k)

\* C27 amended: the same, with every offset written to the nearest hundredth of a
\* second.
C27_CrossfadeAtRoundedCumulativeOffset ==
    Crossfading =>
        /\ Len(XfadeOffsets) = render.n - 1
        /\ \A k \in 1..(render.n - 1) :
              2 * Distance(XfadeOffsets[k] * TicksPerCenti, CumulativeOffset(k))
                  <= TicksPerCenti

C27_Witness ==
    /\ Crossfading
    /\ render.impl = "renderer"
    /\ render.n = 3
    /\ render.durations = <<(100 * Scale) \div 3, (100 * Scale) \div 3,
                            MIN_IMAGE_DURATION * Scale>>
    /\ XfadeOffsets = <<283, 567>>

\* the still-image inputs of the command
Stills == {k \in DOMAIN render.cmd.visuals : render.cmd.visuals[k].kind = "image"}

\* VideoGenerator always crossfades; VideoRenderer when enable_transitions is set
TransitionsEnabled == render.impl = "generator" \/ render.transitions

\* C28: with transitions enabled every still's input duration (-t) is its planned
\* display duration plus one transition length, the last still included; with
\* transitions disabled it is the planned display duration exactly.
C28_StillInputsCarryTransition ==
    (render.phase = "done" /\ render.raised # "build") =>
        \A k \in Stills :
           render.cmd.visuals[k].t =
               render.cmd.visuals[k].shown
                 + (IF TransitionsEnabled THEN TRANSITION_DURATION * Scale ELSE 0)

\* every (filter, position) that reads a stream reference, and every -map of it
Reads(ref) ==
    UNION {{<<k, j>> : j \in {i \in DOMAIN render.graph.filters[k].ins :
                                 render.graph.filters[k].ins[i] = ref}} :
             k \in DOMAIN render.graph.filters}

MapsOf(ref) == {j \in DOMAIN render.graph.maps : render.graph.maps[j] = ref}

Defines(ref) == {k \in DOMAIN render.graph.filters : render.graph.filters[k].out = ref}

\* the labels the graph mentions: read by a filter, defined by one, or mapped
GraphLabels ==
    {render.graph.filters[k].out : k \in DOMAIN render.graph.filters}
      \cup {render.graph.maps[j] : j \in DOMAIN render.graph.maps}
      \cup UNION {{f.ins[j] : j \in {i \in DOMAIN f.ins : f.ins[i].kind = "label"}} :
                    f \in {render.graph.filters[k] : k \in DOMAIN render.graph.filters}}

\* an input pad [k:v] / [k:a] is the pad of the input its filter is written for
PadsAreAdded ==
    \A k \in DOMAIN render.graph.filters :
       \A j \in DOMAIN render.graph.filters[k].ins :
          LET ref == render.graph.filters[k].ins[j]
          IN  ref.kind = "in" =>
                 /\ ref.idx + 1 \in DOMAIN render.graph.inputs
                 /\ render.graph.inputs[ref.idx + 1] = render.graph.filters[k].want
                 /\ (ref.name = "v") = (render.graph.filters[k].want.kind \in VisualKinds)

\* a command was returned for at least one still, or by VideoRenderer for a cover,
\* intro or background clip
BuiltCommand ==
    \/ Returned("generator") /\ render.n >= 1
    \/ Returned("renderer")

\* C29: in every command a builder returns, every stream label is defined by exactly
\* one filter and read exactly once, every input pad [k:v] / [k:a] is the pad of an
\* input added at position k, and exactly [outv] and [outa] are mapped.
C29_FilterGraphIsWellFormed ==
    BuiltCommand =>
        /\ \A ref \in GraphLabels :
              /\ Cardinality(Defines(ref)) = 1
              /\ Cardinality(Reads(ref)) + Cardinality(MapsOf(ref)) = 1
        /\ PadsAreAdded
        /\ render.graph.maps = <<Label("outv", 0), Label("outa", 0)>>

C29_Witness ==
    /\ Returned("renderer")
    /\ ~render.background /\ CoverRequested /\ render.intro
    /\ render.n = 3 /\ render.transitions /\ render.music
    /\ render.cmd.subtitles
    /\ Len(render.graph.inputs) = 7
    /\ Len(render.graph.filters) = 13
    /\ FiltersOf({"concat"}) # {}

\* AudioGenerator.generate returned
AudioReturned == calc.fn = "audio" /\ calc.phase = "done"

\* the end times of the returned voice segments that have one
ReturnedEndTimes ==
    {calc.result.value[3][k].end :
        k \in {i \in DOMAIN calc.result.value[3] : calc.result.value[3][i].has_end}}

Prompted == {k \in DOMAIN imaging.scenes : imaging.scenes[k].prompt}

Generated == {k \in Prompted : HasImage(imaging.scenes[k].responses)}

RECURSIVE PathsFrom(_)
PathsFrom(k) ==
    IF k > Len(imaging.scenes) THEN <<>>
    ELSE (IF k \in Generated THEN <<ImageFile(k - 1)>> ELSE <<>>) \o PathsFrom(k + 1)

\* C31: ImageGenerator.generate sets images_complete and returns the paths exactly
\* when at least one image was generated; a failed image does not abort the stage
\* (every scene with a prompt gets its request, at most image_count of them), the
\* returned list is the generated images' paths in scene order, and with no image
\* the stage raises and the Generation is failed.
C31_StageSucceedsIffAnImage ==
    Imaged("generate") =>
        /\ (imaging.outcome = "returned") = (Generated # {})
        /\ imaging.outcome = "returned"
              => /\ db.generation.status = "images_complete"
                 /\ imaging.value = PathsFrom(1)
        /\ imaging.outcome = "raised" => db.generation.status = "failed"
        /\ Len(db.image_requests) = Cardinality(Prompted)
        /\ Len(db.image_requests) <= Len(imaging.scenes)

\* the length of the crossfaded visual track of the command, in ticks: the offset of
\* the last crossfade plus the input duration of the last still, or the single
\* still's input duration
TrackLength ==
    IF render.n = 1 THEN render.cmd.visuals[1].t
    ELSE XfadeOffsets[render.n - 1] * TicksPerCenti + render.cmd.visuals[render.n].t

\* what VideoGenerator.generate was given as audio_duration, padded, in ticks
PaddedAudio == (render.segs_len * GridStep + TAIL_PADDING) * Scale

\* C32: for every duration list the planner produces, the crossfaded visual track is
\* at least audio_duration + 2.0 long, so the fade to black ends inside the video.
C32_TrackCoversPaddedAudio ==
    (Returned("generator") /\ render.n >= 1) => TrackLength >= PaddedAudio

\* the crossfade offsets each builder writes for a planned timeline, in hundredths
OffsetsOf(graph) ==
    LET xfades == SelectSeq(graph.filters, LAMBDA f : f.op = "xfade")
    IN  [k \in 1..Len(xfades) |-> xfades[k].offset]

GeneratorOffsets ==
    OffsetsOf(VideoGenerator_filter_graph(Len(timeline.generator), timeline.generator,
                                          FALSE, FALSE))

RendererOffsets ==
    OffsetsOf(VideoRenderer_filter_graph(
                  [NoRender EXCEPT !.n = Len(timeline.renderer),
                                   !.durations = timeline.renderer,
                                   !.transitions = TRUE]))

NonNegativeAndRising(offsets) ==
    /\ \A k \in DOMAIN offsets : offsets[k] >= 0
    /\ \A k \in 1..(Len(offsets) - 1) : offsets[k] <= offsets[k + 1]

\* C33: for every planned timeline (both branches) every crossfade offset is
\* non-negative, the offsets never decrease from one crossfade to the next, and every
\* per-still fade-out start of VideoGenerator is non-negative.
C33_OffsetsNonNegativeAndRising ==
    (timeline.phase = "planned" /\ timeline.num_images > 0) =>
        /\ NonNegativeAndRising(GeneratorOffsets)
        /\ NonNegativeAndRising(RendererOffsets)
        /\ \A i \in 1..(Len(timeline.generator) - 1) :
              fade_out_start(timeline.generator[i]) >= 0

\* no path occurs twice in the list
Distinct(paths) == \A i \in DOMAIN paths : \A j \in DOMAIN paths : paths[i] = paths[j] => i = j

\* the image stage ran more than once: two image_requests rows carry the same index
RanImagesTwice ==
    \E i \in DOMAIN db.image_requests : \E j \in DOMAIN db.image_requests :
        i # j /\ db.image_requests[i].image_index = db.image_requests[j].image_index

C35_CompletedHasNoErrorMessage ==
    db.generation.status = "completed" => db.generation.error_message = ""

\* C36: in every reachable state a completed Generation has a VideoOutput row with
\* success set whose video_path is the Generation's video_path.
C36_CompletedHasItsVideoOutput ==
    db.generation.status = "completed" =>
        \E k \in DOMAIN db.video_outputs :
            /\ db.video_outputs[k].success
            /\ db.video_outputs[k].video_path = db.generation.video_path

C36_Witness ==
    /\ Rendered("generator")
    /\ render.raised = ""
    /\ db.generation.status = "completed"
    /\ db.generation.video_path = VIDEO_FILE
    /\ Last(db.video_outputs).success
    /\ Last(db.video_outputs).video_path = VIDEO_FILE
    /\ ~db.video_outputs[Len(db.video_outputs) - 1].success

(***************************************************************************)
(* Order of the two times of a subtitle entry.                             *)
(***************************************************************************)
\* C37: every subtitle entry written by _create_subtitle_file has start time <= end
\* time whenever its voice segment has start <= end, including the first entry, whose
\* start is raised to the fade-in duration.
C37_EntryStartsBeforeItEnds ==
    Written =>
        \A i \in 1..Len(calc.result) :
            calc.args[2][i].start <= calc.args[2][i].end =>
                SrtMillis(calc.result[i].start) <= SrtMillis(calc.result[i].end)

(***************************************************************************)
(* The frame of generate_cover.                                            *)
(***************************************************************************)
\* the step of resume_cli in which generate_cover is called: the ImageGenerator was
\* constructed and no cover file exists
CoverIsGenerated == pc = "resume_cover" /\ env.google_key /\ ~files.cover /\ pc' # pc

\* C38: generate_cover never raises and never changes persisted state: whether cover
\* generation succeeds or fails, the Generation's status and error_message and every
\* image_requests row are left unchanged, and a failed cover yields None, with which
\* the pipeline continues to the video stage.
C38_CoverLeavesPersistedStateAlone ==
    [][CoverIsGenerated =>
          /\ lastRaise' = lastRaise
          /\ db'.generation.status = db.generation.status
          /\ db'.generation.error_message = db.generation.error_message
          /\ db'.image_requests = db.image_requests
          /\ pc' = "resume_video"
          /\ loc'.cover_path \in {"none", "cover_raw.png"}
          /\ loc'.cover_path = "cover_raw.png" => files'.cover]_vars

\* a cover was attempted on a Generation that has image_requests rows, the image data
\* arrived, and the resume went on to the video stage without a cover
C38_Witness ==
    /\ op = "resume" /\ pc = "resume_video"
    /\ "cover" \in ran
    /\ lastRaise = NoRaise
    /\ db.image_requests # <<>>
    /\ files.cover /\ ~snapshot.files.cover
    /\ loc.cover_path = "none"

(***************************************************************************)
(* The TUI: the UI thread and the generation workers it starts.            *)
(* tui.worker[w] is the position of worker w in _start_generation:         *)
(* "start" (the thread exists and has not yet run its first statement),    *)
(* "try" (is_generating was set, the stages run), "finally" (the try       *)
(* statement was left, by return or by a caught exception), "done".        *)
(***************************************************************************)
TuiInit ==
    /\ Quiescent(EmptyStore, NoFiles)
    /\ env = [google_key |-> FALSE, eleven_key |-> FALSE, mode |-> "static"]
    /\ timeline = NoTimeline
    /\ render = NoRender
    /\ imaging = NoImaging
    /\ pair = NoPair
    /\ calc = NoCalc
    /\ tui = PodcastGeneratorApp_init

TuiStep(t) ==
    /\ tui' = t
    /\ UNCHANGED <<orchVars, timeline, render, imaging, pair, calc>>

\* action_new_generation, on key n or button btn-new-gen of the main screen (neither
\* is reachable while the modal screen is on top): warn and return if is_generating,
\* otherwise push the NewGenerationModal with handle_topic as its callback
action_new_generation ==
    /\ ~tui.modal
    /\ TuiStep(IF tui.is_generating
               THEN [tui EXCEPT !.warned = TRUE]
               ELSE [tui EXCEPT !.modal = TRUE])

\* the modal is dismissed and handle_topic(result) runs in the UI thread: with a topic
\* it calls _start_generation, which creates a thread worker and returns; is_generating
\* is not read again
handle_topic ==
    /\ tui.modal
    /\ \E topic \in BOOLEAN :
          /\ topic => Len(tui.worker) < MaxWorkers
          /\ TuiStep([tui EXCEPT !.modal = FALSE,
                                 !.worker = IF topic THEN Append(@, "start") ELSE @])

\* _start_generation, first statement, in the worker thread: self.is_generating = True
start_generation_enter(w) ==
    /\ tui.worker[w] = "start"
    /\ TuiStep([tui EXCEPT !.is_generating = TRUE, !.worker[w] = "try"])

\* the try statement: the stages run to the end, or an exception is caught and logged
start_generation_try(w) ==
    /\ tui.worker[w] = "try"
    /\ TuiStep([tui EXCEPT !.worker[w] = "finally"])

\* the finally clause: self.is_generating = False, db.close(), refresh_history
start_generation_finally(w) ==
    /\ tui.worker[w] = "finally"
    /\ TuiStep([tui EXCEPT !.is_generating = FALSE, !.worker[w] = "done"])

TuiNext ==
    \/ action_new_generation
    \/ handle_topic
    \/ \E w \in 1..MaxWorkers :
          /\ w \in DOMAIN tui.worker
          /\ \/ start_generation_enter(w)
             \/ start_generation_try(w)
             \/ start_generation_finally(w)

SpecTui == TuiInit /\ [][TuiNext]_vars

\* worker w exists and has not finished / is between setting and clearing is_generating
WorkerRunning(w) == tui.worker[w] \in {"start", "try", "finally"}

WorkerInBody(w) == tui.worker[w] \in {"try", "finally"}

\* C39: in the TUI at most one generation worker runs at any time: under every
\* interleaving of the UI thread and the worker threads a second worker is never
\* started while one is running, and is_generating is never false while a worker is
\* still running.
C39_AtMostOneWorkerRuns ==
    /\ Cardinality({w \in DOMAIN tui.worker : WorkerRunning(w)}) <= 1
    /\ (\E w \in DOMAIN tui.worker : WorkerInBody(w)) => tui.is_generating


====
